---- MODULE Spec2Model ----
(***************************************************************************)
(* The rust6502Forge assembler.  Resolver: the line model of forge_lib,    *)
(* the size functions, expression evaluation, address-mode classification, *)
(* the opcode table and the three loops of process_lines.  Scanner: the    *)
(* character cursor, the recognizers of the scanner modules and the loop   *)
(* of parse_file over Scanner::line.                                       *)
(***************************************************************************)
EXTENDS Integers, Sequences, FiniteSets, TLC

VARIABLES
    lines,            \* Vec<Line> handed to process_lines
    constant_map,     \* HashMap<String, u16>
    label_map,        \* HashMap<String, LabelMetaData>
    offset_tracker,   \* u16 offset counter of pass 1
    pc,               \* loop of process_lines that is running ("done" after the last)
    idx,              \* number of lines the running loop has visited (all lines when done)
    result,           \* _result of the last resolve_expressions call
    gen_operand,      \* gen_operand of the last iteration of the third loop
    opcode,           \* opcode of the last iteration of the third loop
    fault,            \* cause of the panic that aborted the running loop, "" if none
    returned,         \* Vec<u8> process_lines has returned, None while it runs
    overflow_checks,  \* build profile: arithmetic overflow panics (debug) or wraps (release)
    input,            \* Scanner.input: Vec<char>, one-character strings
    cursor,           \* Scanner.cursor
    scanner_lines,    \* Scanner.lines: newlines consumed so far
    line_list,        \* Vec<Line> parse_file has collected
    parse_error,      \* the Err of Scanner::line on which parse_file exits, "" if none
    parsers,          \* the parsers of the Scanner that its caller runs one by one
    called,           \* the parser that was run last, "" before the first
    parsed            \* the Option<Token> the parser run last has returned

scanner_vars == <<input, cursor, scanner_lines, line_list, parse_error, parsers, called, parsed>>
resolver_vars == <<lines, constant_map, label_map, offset_tracker, pc, idx, result,
                   gen_operand, opcode, fault, returned, overflow_checks>>
vars == <<resolver_vars, scanner_vars>>

\* ---------------------------------------------------------------- bounds
MaxLines == 3

\* ------------------------------------------------------- integer widths
U8Max == 255
U16Mod == 65536
U8Mod == 256
U16Bits == 16

\* ------------------------------------------------------------ Option<T>
None == <<>>
Some(x) == <<x>>
is_some(o) == Len(o) = 1
unwrap(o) == o[1]

\* -------------------------------------------------- forge_lib data model
Number(n) == [node |-> "Number", n |-> n]
Identifier(s) == [node |-> "Identifier", ident |-> s]
Parenthesized(e) == [node |-> "Parenthesized", inner |-> e]
ScopedReference(p) == [node |-> "ScopedReference", scoped_ref |-> p]
BinOp(op, l, r) == [node |-> "BinOp", op |-> op, left |-> l, right |-> r]

AddressModeValue(v, n) == [variant |-> v, value |-> n]
AddressModeIdent(v, s) == [variant |-> v, ident |-> s]
AddressModeScopedRef(v, p) == [variant |-> v, scoped_ref |-> p]
Accumulator == [variant |-> "Accumulator"]

OperandExpression(e) == [kind |-> "Expression", expr |-> e]
OperandAddressMode(am) == [kind |-> "AddressMode", address_mode |-> am]
OperandLocalLabel(s) == [kind |-> "LocalLabel", ident |-> s]

Instruction(m, operand) == [mnemonic |-> m, operand |-> operand]

ArgValue(n) == [kind |-> "Value", value |-> n]
ArgIdentifier(s) == [kind |-> "Identifier", ident |-> s]
ArgExpression(e) == [kind |-> "Expression", expr |-> e]
ArgDefault == ArgValue(0)

DirectiveList(name, args) == [name |-> name, args |-> args]
DirectiveORG(n) == [name |-> "ORG", value |-> n]
DirectiveNamed(name, s) == [name |-> name, arg |-> s]
DirectiveBare(name) == [name |-> name]

MainInstruction(i) == [kind |-> "Instruction", instruction |-> i]
MainDirective(d) == [kind |-> "Directive", directive |-> d]

Label(s) == [kind |-> "Label", ident |-> s]
LocalLabel(s) == [kind |-> "LocalLabel", ident |-> s]

Line(comment, constant, label, main_component, newlines) ==
    [comment |-> comment, constant |-> constant, label |-> label,
     main_component |-> main_component, newlines |-> newlines]

LabelMetaData(offset, is_local) == [offset |-> offset, is_local |-> is_local]

EmptyMap == [k \in {} |-> 0]
insert(m, k, v) == [x \in (DOMAIN m) \cup {k} |-> IF x = k THEN v ELSE m[x]]

\* --------------------------------------------------------- opcode table
Mnemonics == {
    "ADC", "AND", "ASL", "BCC", "BCS", "BEQ", "BIT", "BMI", "BNE", "BPL", "BRK", "BVC", "BVS", "CLC", "CLD",
    "CLI", "CLV", "CMP", "CPX", "CPY", "DEC", "DEX", "DEY", "EQR", "INC", "INX", "INY", "JMP", "JSR", "LDA",
    "LDX", "LDY", "LSR", "NOP", "ORA", "PHA", "PHP", "PLA", "PLP", "ROL", "ROR", "RTI", "RTS",
    "SBC", "SEC", "SED", "SEI", "STA", "STX", "STY", "TAX", "TAY", "TSX", "TXA", "TXS", "TYA" }

OPCODES_TO_BYTES ==
       <<"ADC", "Immediate">> :> [opcode |-> 105, len |-> 2]
    @@ <<"ADC", "ZeroPage">> :> [opcode |-> 101, len |-> 2]
    @@ <<"ADC", "ZeroPageX">> :> [opcode |-> 117, len |-> 2]
    @@ <<"ADC", "Absolute">> :> [opcode |-> 109, len |-> 3]
    @@ <<"ADC", "AbsoluteX">> :> [opcode |-> 125, len |-> 3]
    @@ <<"ADC", "AbsoluteY">> :> [opcode |-> 121, len |-> 3]
    @@ <<"ADC", "IndexedIndirectX">> :> [opcode |-> 97, len |-> 2]
    @@ <<"ADC", "IndirectIndexY">> :> [opcode |-> 113, len |-> 2]
    @@ <<"AND", "Immediate">> :> [opcode |-> 41, len |-> 2]
    @@ <<"AND", "ZeroPage">> :> [opcode |-> 37, len |-> 2]
    @@ <<"AND", "ZeroPageX">> :> [opcode |-> 53, len |-> 2]
    @@ <<"AND", "Absolute">> :> [opcode |-> 45, len |-> 3]
    @@ <<"AND", "AbsoluteX">> :> [opcode |-> 61, len |-> 3]
    @@ <<"AND", "AbsoluteY">> :> [opcode |-> 57, len |-> 3]
    @@ <<"AND", "IndexedIndirectX">> :> [opcode |-> 33, len |-> 2]
    @@ <<"AND", "IndirectIndexY">> :> [opcode |-> 49, len |-> 2]
    @@ <<"ASL", "Accumulator">> :> [opcode |-> 10, len |-> 1]
    @@ <<"ASL", "ZeroPage">> :> [opcode |-> 6, len |-> 2]
    @@ <<"ASL", "ZeroPageX">> :> [opcode |-> 22, len |-> 2]
    @@ <<"ASL", "Absolute">> :> [opcode |-> 14, len |-> 3]
    @@ <<"ASL", "AbsoluteX">> :> [opcode |-> 30, len |-> 3]
    @@ <<"BCC", "Relative">> :> [opcode |-> 144, len |-> 2]
    @@ <<"BCS", "Relative">> :> [opcode |-> 176, len |-> 2]
    @@ <<"BEQ", "Relative">> :> [opcode |-> 240, len |-> 2]
    @@ <<"BIT", "ZeroPage">> :> [opcode |-> 36, len |-> 2]
    @@ <<"BIT", "Absolute">> :> [opcode |-> 44, len |-> 3]
    @@ <<"BMI", "Relative">> :> [opcode |-> 48, len |-> 2]
    @@ <<"BNE", "Relative">> :> [opcode |-> 208, len |-> 2]
    @@ <<"BPL", "Relative">> :> [opcode |-> 16, len |-> 2]
    @@ <<"BRK", "Implied">> :> [opcode |-> 0, len |-> 1]
    @@ <<"BVC", "Relative">> :> [opcode |-> 80, len |-> 2]
    @@ <<"BVS", "Relative">> :> [opcode |-> 112, len |-> 2]
    @@ <<"CLC", "Implied">> :> [opcode |-> 24, len |-> 1]
    @@ <<"CLD", "Implied">> :> [opcode |-> 216, len |-> 1]
    @@ <<"CLI", "Implied">> :> [opcode |-> 88, len |-> 1]
    @@ <<"CLV", "Implied">> :> [opcode |-> 184, len |-> 1]
    @@ <<"CMP", "Immediate">> :> [opcode |-> 201, len |-> 2]
    @@ <<"CMP", "ZeroPage">> :> [opcode |-> 197, len |-> 2]
    @@ <<"CMP", "ZeroPageX">> :> [opcode |-> 213, len |-> 2]
    @@ <<"CMP", "Absolute">> :> [opcode |-> 205, len |-> 3]
    @@ <<"CMP", "AbsoluteX">> :> [opcode |-> 221, len |-> 3]
    @@ <<"CMP", "AbsoluteY">> :> [opcode |-> 217, len |-> 3]
    @@ <<"CMP", "IndexedIndirectX">> :> [opcode |-> 193, len |-> 2]
    @@ <<"CMP", "IndirectIndexY">> :> [opcode |-> 209, len |-> 2]
    @@ <<"CPX", "Immediate">> :> [opcode |-> 224, len |-> 2]
    @@ <<"CPX", "ZeroPage">> :> [opcode |-> 228, len |-> 2]
    @@ <<"CPX", "Absolute">> :> [opcode |-> 236, len |-> 3]
    @@ <<"CPY", "Immediate">> :> [opcode |-> 192, len |-> 2]
    @@ <<"CPY", "ZeroPage">> :> [opcode |-> 196, len |-> 2]
    @@ <<"CPY", "Absolute">> :> [opcode |-> 204, len |-> 3]
    @@ <<"DEC", "ZeroPage">> :> [opcode |-> 198, len |-> 2]
    @@ <<"DEC", "ZeroPageX">> :> [opcode |-> 214, len |-> 2]
    @@ <<"DEC", "Absolute">> :> [opcode |-> 206, len |-> 3]
    @@ <<"DEC", "AbsoluteX">> :> [opcode |-> 222, len |-> 3]
    @@ <<"DEX", "Implied">> :> [opcode |-> 202, len |-> 1]
    @@ <<"DEY", "Implied">> :> [opcode |-> 136, len |-> 1]
    @@ <<"EQR", "Immediate">> :> [opcode |-> 73, len |-> 2]
    @@ <<"EQR", "ZeroPage">> :> [opcode |-> 69, len |-> 2]
    @@ <<"EQR", "ZeroPageX">> :> [opcode |-> 85, len |-> 2]
    @@ <<"EQR", "Absolute">> :> [opcode |-> 77, len |-> 3]
    @@ <<"EQR", "AbsoluteX">> :> [opcode |-> 93, len |-> 3]
    @@ <<"EQR", "AbsoluteY">> :> [opcode |-> 89, len |-> 3]
    @@ <<"EQR", "IndexedIndirectX">> :> [opcode |-> 65, len |-> 2]
    @@ <<"EQR", "IndirectIndexY">> :> [opcode |-> 81, len |-> 2]
    @@ <<"INC", "ZeroPage">> :> [opcode |-> 230, len |-> 2]
    @@ <<"INC", "ZeroPageX">> :> [opcode |-> 246, len |-> 2]
    @@ <<"INC", "Absolute">> :> [opcode |-> 238, len |-> 3]
    @@ <<"INC", "AbsoluteX">> :> [opcode |-> 254, len |-> 3]
    @@ <<"INX", "Implied">> :> [opcode |-> 232, len |-> 1]
    @@ <<"INY", "Implied">> :> [opcode |-> 200, len |-> 1]
    @@ <<"JMP", "Absolute">> :> [opcode |-> 76, len |-> 3]
    @@ <<"JMP", "Indirect">> :> [opcode |-> 108, len |-> 3]
    @@ <<"JSR", "Absolute">> :> [opcode |-> 32, len |-> 3]
    @@ <<"LDA", "Immediate">> :> [opcode |-> 169, len |-> 2]
    @@ <<"LDA", "ZeroPage">> :> [opcode |-> 165, len |-> 2]
    @@ <<"LDA", "ZeroPageX">> :> [opcode |-> 181, len |-> 2]
    @@ <<"LDA", "Absolute">> :> [opcode |-> 173, len |-> 3]
    @@ <<"LDA", "AbsoluteX">> :> [opcode |-> 189, len |-> 3]
    @@ <<"LDA", "AbsoluteY">> :> [opcode |-> 185, len |-> 3]
    @@ <<"LDA", "IndexedIndirectX">> :> [opcode |-> 161, len |-> 2]
    @@ <<"LDA", "IndirectIndexY">> :> [opcode |-> 177, len |-> 2]
    @@ <<"LDX", "Immediate">> :> [opcode |-> 162, len |-> 2]
    @@ <<"LDX", "ZeroPage">> :> [opcode |-> 166, len |-> 2]
    @@ <<"LDX", "ZeroPageY">> :> [opcode |-> 182, len |-> 2]
    @@ <<"LDX", "Absolute">> :> [opcode |-> 174, len |-> 3]
    @@ <<"LDX", "AbsoluteY">> :> [opcode |-> 190, len |-> 3]
    @@ <<"LDY", "Immediate">> :> [opcode |-> 160, len |-> 2]
    @@ <<"LDY", "ZeroPage">> :> [opcode |-> 164, len |-> 2]
    @@ <<"LDY", "ZeroPageX">> :> [opcode |-> 180, len |-> 2]
    @@ <<"LDY", "Absolute">> :> [opcode |-> 172, len |-> 3]
    @@ <<"LDY", "AbsoluteX">> :> [opcode |-> 188, len |-> 3]
    @@ <<"LSR", "Accumulator">> :> [opcode |-> 74, len |-> 1]
    @@ <<"LSR", "ZeroPage">> :> [opcode |-> 70, len |-> 2]
    @@ <<"LSR", "ZeroPageX">> :> [opcode |-> 86, len |-> 2]
    @@ <<"LSR", "Absolute">> :> [opcode |-> 78, len |-> 3]
    @@ <<"LSR", "AbsoluteX">> :> [opcode |-> 94, len |-> 3]
    @@ <<"NOP", "Implied">> :> [opcode |-> 234, len |-> 1]
    @@ <<"ORA", "Immediate">> :> [opcode |-> 9, len |-> 2]
    @@ <<"ORA", "ZeroPage">> :> [opcode |-> 5, len |-> 2]
    @@ <<"ORA", "ZeroPageX">> :> [opcode |-> 21, len |-> 2]
    @@ <<"ORA", "Absolute">> :> [opcode |-> 13, len |-> 3]
    @@ <<"ORA", "AbsoluteX">> :> [opcode |-> 29, len |-> 3]
    @@ <<"ORA", "AbsoluteY">> :> [opcode |-> 25, len |-> 3]
    @@ <<"ORA", "IndexedIndirectX">> :> [opcode |-> 1, len |-> 2]
    @@ <<"ORA", "IndirectIndexY">> :> [opcode |-> 17, len |-> 2]
    @@ <<"PHA", "Implied">> :> [opcode |-> 72, len |-> 1]
    @@ <<"PHP", "Implied">> :> [opcode |-> 8, len |-> 1]
    @@ <<"PLA", "Implied">> :> [opcode |-> 104, len |-> 1]
    @@ <<"PLP", "Implied">> :> [opcode |-> 40, len |-> 1]
    @@ <<"ROL", "Accumulator">> :> [opcode |-> 42, len |-> 1]
    @@ <<"ROL", "ZeroPage">> :> [opcode |-> 38, len |-> 2]
    @@ <<"ROL", "ZeroPageX">> :> [opcode |-> 54, len |-> 2]
    @@ <<"ROL", "Absolute">> :> [opcode |-> 46, len |-> 3]
    @@ <<"ROL", "AbsoluteX">> :> [opcode |-> 62, len |-> 3]
    @@ <<"ROR", "Accumulator">> :> [opcode |-> 106, len |-> 1]
    @@ <<"ROR", "ZeroPage">> :> [opcode |-> 102, len |-> 2]
    @@ <<"ROR", "ZeroPageX">> :> [opcode |-> 118, len |-> 2]
    @@ <<"ROR", "Absolute">> :> [opcode |-> 110, len |-> 3]
    @@ <<"ROR", "AbsoluteX">> :> [opcode |-> 126, len |-> 3]
    @@ <<"RTI", "Implied">> :> [opcode |-> 64, len |-> 1]
    @@ <<"RTS", "Implied">> :> [opcode |-> 96, len |-> 1]
    @@ <<"SBC", "Immediate">> :> [opcode |-> 233, len |-> 2]
    @@ <<"SBC", "ZeroPage">> :> [opcode |-> 229, len |-> 2]
    @@ <<"SBC", "ZeroPageX">> :> [opcode |-> 245, len |-> 2]
    @@ <<"SBC", "Absolute">> :> [opcode |-> 237, len |-> 3]
    @@ <<"SBC", "AbsoluteX">> :> [opcode |-> 253, len |-> 3]
    @@ <<"SBC", "AbsoluteY">> :> [opcode |-> 249, len |-> 3]
    @@ <<"SBC", "IndexedIndirectX">> :> [opcode |-> 225, len |-> 2]
    @@ <<"SBC", "IndirectIndexY">> :> [opcode |-> 241, len |-> 2]
    @@ <<"SEC", "Implied">> :> [opcode |-> 56, len |-> 1]
    @@ <<"SED", "Implied">> :> [opcode |-> 248, len |-> 1]
    @@ <<"SEI", "Implied">> :> [opcode |-> 120, len |-> 1]
    @@ <<"STA", "ZeroPage">> :> [opcode |-> 133, len |-> 2]
    @@ <<"STA", "ZeroPageX">> :> [opcode |-> 149, len |-> 2]
    @@ <<"STA", "Absolute">> :> [opcode |-> 141, len |-> 3]
    @@ <<"STA", "AbsoluteX">> :> [opcode |-> 157, len |-> 3]
    @@ <<"STA", "AbsoluteY">> :> [opcode |-> 153, len |-> 3]
    @@ <<"STA", "IndexedIndirectX">> :> [opcode |-> 129, len |-> 2]
    @@ <<"STA", "IndirectIndexY">> :> [opcode |-> 145, len |-> 2]
    @@ <<"STX", "ZeroPage">> :> [opcode |-> 134, len |-> 2]
    @@ <<"STX", "ZeroPageY">> :> [opcode |-> 150, len |-> 2]
    @@ <<"STX", "Absolute">> :> [opcode |-> 142, len |-> 3]
    @@ <<"STY", "ZeroPage">> :> [opcode |-> 132, len |-> 2]
    @@ <<"STY", "ZeroPageX">> :> [opcode |-> 148, len |-> 2]
    @@ <<"STY", "Absolute">> :> [opcode |-> 140, len |-> 3]
    @@ <<"TAX", "Implied">> :> [opcode |-> 170, len |-> 1]
    @@ <<"TAY", "Implied">> :> [opcode |-> 168, len |-> 1]
    @@ <<"TSX", "Implied">> :> [opcode |-> 186, len |-> 1]
    @@ <<"TXA", "Implied">> :> [opcode |-> 138, len |-> 1]
    @@ <<"TXS", "Implied">> :> [opcode |-> 154, len |-> 1]
    @@ <<"TYA", "Implied">> :> [opcode |-> 152, len |-> 1]

get(table, key) == IF key \in DOMAIN table THEN Some(table[key]) ELSE None

\* ------------------------------------------------------- size functions
EightBitModes == {"ZeroPage", "ZeroPageX", "ZeroPageY", "Immediate",
                  "IndexedIndirectX", "IndirectIndexY"}

Instruction_size(instruction) ==
    IF is_some(instruction.operand)
    THEN LET operand == unwrap(instruction.operand) IN
         IF operand.kind = "AddressMode"
         THEN IF operand.address_mode.variant \in EightBitModes THEN 1 + 1 ELSE 1 + 2
         ELSE 1 + 2
    ELSE 1

Directive_size(directive) ==
    IF directive.name = "BYTE" THEN Len(directive.args) % U8Mod
    ELSE IF directive.name = "WORD" THEN (Len(directive.args) * 2) % U8Mod
    ELSE 0

\* ------------------------------------------------ expression evaluation
Value(v) == [ok |-> TRUE, value |-> v]
Panic == [ok |-> FALSE, value |-> 0]

RECURSIVE Pow2(_)
Pow2(n) == IF n = 0 THEN 1 ELSE 2 * Pow2(n - 1)

RECURSIVE BitAnd(_, _, _)
BitAnd(a, b, bits) ==
    IF bits = 0 THEN 0
    ELSE (IF a % 2 = 1 /\ b % 2 = 1 THEN 1 ELSE 0) + 2 * BitAnd(a \div 2, b \div 2, bits - 1)

RECURSIVE BitOr(_, _, _)
BitOr(a, b, bits) ==
    IF bits = 0 THEN 0
    ELSE (IF a % 2 = 1 \/ b % 2 = 1 THEN 1 ELSE 0) + 2 * BitOr(a \div 2, b \div 2, bits - 1)

\* low 16 bits of the product, computed in two halves of r_val so that no
\* intermediate exceeds 2^31
wrapping_mul(l_val, r_val) ==
    (l_val * (r_val % U8Mod) + ((l_val * (r_val \div U8Mod)) % U8Mod) * U8Mod) % U16Mod

\* u16 arithmetic of one BinaryOp; checks = overflow checks of the build
apply_op(op, l_val, r_val, checks) ==
    CASE op = "Add" ->
            IF l_val + r_val >= U16Mod
            THEN (IF checks THEN Panic ELSE Value((l_val + r_val) % U16Mod))
            ELSE Value(l_val + r_val)
      [] op = "Subtract" ->
            IF l_val < r_val
            THEN (IF checks THEN Panic ELSE Value(l_val - r_val + U16Mod))
            ELSE Value(l_val - r_val)
      [] op = "Multiply" ->
            IF l_val # 0 /\ r_val > (U16Mod - 1) \div l_val
            THEN (IF checks THEN Panic ELSE Value(wrapping_mul(l_val, r_val)))
            ELSE Value(l_val * r_val)
      [] op = "Divide" ->
            IF r_val = 0 THEN Panic ELSE Value(l_val \div r_val)
      [] op = "And" -> Value(BitAnd(l_val, r_val, U16Bits))
      [] op = "Or" -> Value(BitOr(l_val, r_val, U16Bits))
      [] op = "ShiftLeft" ->
            IF r_val >= U16Bits /\ checks THEN Panic
            ELSE Value((l_val * Pow2(r_val % U16Bits)) % U16Mod)
      [] op = "ShiftRight" ->
            IF r_val >= U16Bits /\ checks THEN Panic
            ELSE Value(l_val \div Pow2(r_val % U16Bits))

RECURSIVE evaluate_expression(_, _, _)
evaluate_expression(node, cmap, checks) ==
    CASE node.node = "BinOp" ->
            LET l == evaluate_expression(node.left, cmap, checks)
                r == evaluate_expression(node.right, cmap, checks)
            IN  IF ~l.ok \/ ~r.ok THEN Panic
                ELSE apply_op(node.op, l.value, r.value, checks)
      [] node.node = "Number" -> Value(node.n)
      [] node.node = "Identifier" ->
            IF node.ident \in DOMAIN cmap THEN Value(cmap[node.ident]) ELSE Panic
      [] node.node = "Parenthesized" -> evaluate_expression(node.inner, cmap, checks)
      [] node.node = "ScopedReference" -> Value(0)

\* -------------------------------------------- address-mode classification
Ok(v) == [ok |-> TRUE, val |-> v]
Err(e) == [ok |-> FALSE, val |-> e]

\* a classifier that never narrows a constant to zero page
classify_ident_no_narrowing(ident, lmap, cmap, zero_page, absolute) ==
    IF ident \in DOMAIN lmap \/ ident \in DOMAIN cmap THEN Ok(absolute)
    ELSE Err("LabelOrConstantNotFound")

\* a classifier that looks in the constant map before the label map
classify_ident_constant_first(ident, lmap, cmap, zero_page, absolute) ==
    IF ident \in DOMAIN cmap
    THEN (IF cmap[ident] <= U8Max THEN Ok(zero_page) ELSE Ok(absolute))
    ELSE IF ident \in DOMAIN lmap THEN Ok(absolute)
         ELSE Err("LabelOrConstantNotFound")

\* the three ZeroPageOrAbsolute{,X,Y}Ident arms: label map first, then constants
classify_ident(ident, lmap, cmap, zero_page, absolute) ==
    IF ident \in DOMAIN lmap THEN Ok(absolute)
    ELSE IF ident \in DOMAIN cmap
         THEN (IF cmap[ident] <= U8Max THEN Ok(zero_page) ELSE Ok(absolute))
         ELSE Err("LabelOrConstantNotFound")

to_generic(am, lmap, cmap) ==
    CASE am.variant \in {"Immediate", "ImmediateIdent", "ImmediateScopedRef"} -> Ok("Immediate")
      [] am.variant = "Accumulator" -> Ok("Accumulator")
      [] am.variant \in {"ZeroPage", "ZeroPageX", "ZeroPageY",
                         "Absolute", "AbsoluteX", "AbsoluteY"} -> Ok(am.variant)
      [] am.variant \in {"IndexedIndirectX", "IndexedIndirectXIdent",
                         "IndexedIndirectXScopedRef"} -> Ok("IndexedIndirectX")
      [] am.variant \in {"IndirectIndexY", "IndirectIndexYIdent",
                         "IndirectIndexYScopedRef"} -> Ok("IndirectIndexY")
      [] am.variant = "ZeroPageOrAbsoluteIdent" ->
            classify_ident(am.ident, lmap, cmap, "ZeroPage", "Absolute")
      [] am.variant = "ZeroPageOrAbsoluteScopedRef" -> Ok("Absolute")
      [] am.variant = "ZeroPageOrAbsoluteXIdent" ->
            classify_ident(am.ident, lmap, cmap, "ZeroPageX", "AbsoluteX")
      [] am.variant = "ZeroPageOrAbsoluteXScopedRef" -> Ok("AbsoluteX")
      [] am.variant = "ZeroPageOrAbsoluteYIdent" ->
            classify_ident(am.ident, lmap, cmap, "ZeroPageY", "AbsoluteY")
      [] am.variant = "ZeroPageOrAbsoluteYScopedRef" -> Ok("AbsoluteY")

\* --------------------------------------------------------------- pass 1
\* `*offset_tracker += size as u16`
add_u16(a, b, checks) ==
    IF a + b >= U16Mod
    THEN (IF checks THEN Panic ELSE Value((a + b) % U16Mod))
    ELSE Value(a + b)

\* a constant map that keeps the first definition of a name
insert_constant_first_wins(cmap, line) ==
    IF is_some(line.constant) /\ unwrap(line.constant)[1] \notin DOMAIN cmap
    THEN insert(cmap, unwrap(line.constant)[1], unwrap(line.constant)[2])
    ELSE cmap

insert_constant(cmap, line) ==
    IF is_some(line.constant)
    THEN insert(cmap, unwrap(line.constant)[1], unwrap(line.constant)[2])
    ELSE cmap

main_component_size(line) ==
    IF is_some(line.main_component)
    THEN (IF unwrap(line.main_component).kind = "Directive"
          THEN Directive_size(unwrap(line.main_component).directive)
          ELSE Instruction_size(unwrap(line.main_component).instruction))
    ELSE 0

\* a resolver that sizes the line before it records the label
insert_label_after_size(lmap, line, offset) ==
    IF is_some(line.label)
    THEN insert(lmap, unwrap(line.label).ident,
                LabelMetaData(offset + main_component_size(line),
                              unwrap(line.label).kind = "LocalLabel"))
    ELSE lmap

insert_label(lmap, line, offset) ==
    IF is_some(line.label)
    THEN insert(lmap, unwrap(line.label).ident,
                LabelMetaData(offset, unwrap(line.label).kind = "LocalLabel"))
    ELSE lmap

resolve_labels_and_constants(line, cmap, lmap, offset, checks) ==
    LET sum == add_u16(offset, main_component_size(line), checks) IN
    [constant_map |-> insert_constant(cmap, line),
     label_map |-> insert_label(lmap, line, offset),
     offset_tracker |-> IF sum.ok THEN sum.value ELSE offset,
     panicked |-> ~sum.ok]

\* --------------------------------------------------------------- pass 2
\* the loops over the arguments stop at the first expression that panics or
\* (BYTE only) does not fit; std::mem::take has left the default there
first_index(s, n) == IF s = {} THEN n + 1 ELSE CHOOSE k \in s : \A j \in s : k <= j

resolve_byte_args(args, cmap, checks) ==
    LET value(k) == evaluate_expression(args[k].expr, cmap, checks)
        exprs == {k \in 1..Len(args) : args[k].kind = "Expression"}
        stop == first_index({k \in exprs : ~value(k).ok \/ value(k).value > U8Max}, Len(args))
    IN  [args |-> [k \in 1..Len(args) |->
                     IF k = stop THEN ArgDefault
                     ELSE IF k < stop /\ k \in exprs THEN ArgValue(value(k).value)
                     ELSE args[k]],
         result |-> IF stop <= Len(args) /\ value(stop).ok THEN "ValueTooLarge" ELSE "Ok",
         panicked |-> stop <= Len(args) /\ ~value(stop).ok]

resolve_word_args(args, cmap, checks) ==
    LET value(k) == evaluate_expression(args[k].expr, cmap, checks)
        exprs == {k \in 1..Len(args) : args[k].kind = "Expression"}
        stop == first_index({k \in exprs : ~value(k).ok}, Len(args))
    IN  [args |-> [k \in 1..Len(args) |->
                     IF k = stop THEN ArgDefault
                     ELSE IF k < stop /\ k \in exprs THEN ArgValue(value(k).value)
                     ELSE args[k]],
         result |-> "Ok",
         panicked |-> stop <= Len(args)]

with_main(line, main) == [line EXCEPT !.main_component = Some(main)]

classify_value_always_absolute(value) == AddressModeValue("Absolute", value)

\* address mode an evaluated expression operand is replaced by
classify_value(value) ==
    IF value <= U8Max
    THEN AddressModeValue("ZeroPage", value % U8Mod)
    ELSE AddressModeValue("Absolute", value)

resolve_expressions(line, cmap, checks) ==
    IF ~is_some(line.main_component)
    THEN [line |-> line, result |-> "Ok", panicked |-> FALSE]
    ELSE LET main == unwrap(line.main_component) IN
         IF main.kind = "Directive"
         THEN IF main.directive.name \in {"BYTE", "WORD"}
              THEN LET r == IF main.directive.name = "BYTE"
                            THEN resolve_byte_args(main.directive.args, cmap, checks)
                            ELSE resolve_word_args(main.directive.args, cmap, checks)
                   IN  [line |-> with_main(line, MainDirective(
                                    DirectiveList(main.directive.name, r.args))),
                        result |-> r.result, panicked |-> r.panicked]
              ELSE [line |-> line, result |-> "Ok", panicked |-> FALSE]
         ELSE IF is_some(main.instruction.operand)
                 /\ unwrap(main.instruction.operand).kind = "Expression"
              THEN LET v == evaluate_expression(unwrap(main.instruction.operand).expr,
                                                cmap, checks)
                       address_mode == classify_value(v.value)
                   IN  IF ~v.ok THEN [line |-> line, result |-> "Ok", panicked |-> TRUE]
                       ELSE [line |-> with_main(line, MainInstruction(
                                        Instruction(main.instruction.mnemonic,
                                                    Some(OperandAddressMode(address_mode))))),
                             result |-> "Ok", panicked |-> FALSE]
              ELSE [line |-> line, result |-> "Ok", panicked |-> FALSE]

\* --------------------------------------------------------------- pass 3
\* gen_operand of one instruction; Err is what `.unwrap()` panics on
generic_operand(instruction, lmap, cmap, checks) ==
    IF is_some(instruction.operand)
    THEN LET operand == unwrap(instruction.operand) IN
         CASE operand.kind = "Expression" ->
                LET v == evaluate_expression(operand.expr, cmap, checks) IN
                IF ~v.ok THEN Err("evaluate_expression panicked")
                ELSE IF v.value <= U8Max THEN Ok("ZeroPage") ELSE Ok("Absolute")
           [] operand.kind = "LocalLabel" -> Ok("Absolute")
           [] operand.kind = "AddressMode" -> to_generic(operand.address_mode, lmap, cmap)
    ELSE Ok("Implied")

\* ---------------------------------------------------- process_lines loops
NoFault == ""

\* the vector process_lines returns
bytes == <<0>>

first_loop ==
    /\ pc = "pass1"
    /\ fault = NoFault
    /\ idx < Len(lines)
    /\ LET r == resolve_labels_and_constants(lines[idx + 1], constant_map, label_map,
                                             offset_tracker, overflow_checks)
       IN  /\ constant_map' = r.constant_map
           /\ label_map' = r.label_map
           /\ offset_tracker' = r.offset_tracker
           /\ fault' = IF r.panicked THEN "attempt to add with overflow" ELSE NoFault
           /\ idx' = IF ~r.panicked /\ idx + 1 = Len(lines) THEN 0 ELSE idx + 1
           /\ pc' = IF ~r.panicked /\ idx + 1 = Len(lines) THEN "pass2" ELSE "pass1"
    /\ UNCHANGED <<lines, result, gen_operand, opcode, returned, overflow_checks>>
    /\ UNCHANGED scanner_vars

second_loop ==
    /\ pc = "pass2"
    /\ fault = NoFault
    /\ idx < Len(lines)
    /\ LET r == resolve_expressions(lines[idx + 1], constant_map, overflow_checks)
       IN  /\ lines' = [lines EXCEPT ![idx + 1] = r.line]
           /\ result' = r.result
           /\ fault' = IF r.panicked THEN "evaluate_expression panicked" ELSE NoFault
           /\ idx' = IF ~r.panicked /\ idx + 1 = Len(lines) THEN 0 ELSE idx + 1
           /\ pc' = IF ~r.panicked /\ idx + 1 = Len(lines) THEN "pass3" ELSE "pass2"
    /\ UNCHANGED <<constant_map, label_map, offset_tracker, gen_operand, opcode,
                   returned, overflow_checks>>
    /\ UNCHANGED scanner_vars

third_loop ==
    /\ pc = "pass3"
    /\ fault = NoFault
    /\ idx < Len(lines)
    /\ LET line == lines[idx + 1]
           is_instruction == is_some(line.main_component)
                             /\ unwrap(line.main_component).kind = "Instruction"
           instruction == unwrap(line.main_component).instruction
           g == IF is_instruction
                THEN generic_operand(instruction, label_map, constant_map, overflow_checks)
                ELSE Ok("")
       IN  /\ gen_operand' = IF g.ok THEN g.val ELSE ""
           /\ opcode' = IF is_instruction /\ g.ok
                        THEN get(OPCODES_TO_BYTES, <<instruction.mnemonic, g.val>>)
                        ELSE None
           /\ fault' = IF g.ok THEN NoFault ELSE g.val
           /\ idx' = idx + 1
           /\ pc' = IF g.ok /\ idx + 1 = Len(lines) THEN "done" ELSE "pass3"
           /\ returned' = IF g.ok /\ idx + 1 = Len(lines) THEN Some(bytes) ELSE None
    /\ UNCHANGED <<lines, constant_map, label_map, offset_tracker, result,
                   overflow_checks>>
    /\ UNCHANGED scanner_vars

Next == first_loop \/ second_loop \/ third_loop

\* ================================================================ scanner
\* characters are one-character strings; the alphabet of the model is ASCII
Uppercase == <<"A", "B", "C", "D", "E", "F", "G", "H", "I", "J", "K", "L", "M",
               "N", "O", "P", "Q", "R", "S", "T", "U", "V", "W", "X", "Y", "Z">>
Lowercase == <<"a", "b", "c", "d", "e", "f", "g", "h", "i", "j", "k", "l", "m",
               "n", "o", "p", "q", "r", "s", "t", "u", "v", "w", "x", "y", "z">>
Digits == <<"0", "1", "2", "3", "4", "5", "6", "7", "8", "9">>
Range(s) == {s[i] : i \in DOMAIN s}
index_of(s, c) == CHOOSE i \in DOMAIN s : s[i] = c

is_ascii_uppercase(c) == c \in Range(Uppercase)
is_ascii_lowercase(c) == c \in Range(Lowercase)
is_alphabetic(c) == is_ascii_uppercase(c) \/ is_ascii_lowercase(c)
is_digit(c) == c \in Range(Digits)
is_ascii_hexdigit(c) ==
    is_digit(c) \/ c \in {"A", "B", "C", "D", "E", "F", "a", "b", "c", "d", "e", "f"}
is_alphanumeric(c) == is_alphabetic(c) \/ is_digit(c)
to_ascii_uppercase(c) == IF is_ascii_lowercase(c) THEN Uppercase[index_of(Lowercase, c)] ELSE c

\* value of a digit in radix 16 (and below)
to_digit(c) ==
    IF is_digit(c) THEN index_of(Digits, c) - 1
    ELSE index_of(Uppercase, to_ascii_uppercase(c)) + 9

\* String of input[from..to), upper-cased when upper is set
RECURSIVE collect(_, _, _, _)
collect(inp, from, to, upper) ==
    IF from >= to THEN ""
    ELSE (IF upper THEN to_ascii_uppercase(inp[from + 1]) ELSE inp[from + 1])
         \o collect(inp, from + 1, to, upper)

\* Result<Option<_>, ParseError> of a recognizer together with the cursor it leaves
POk(c, tok) == [cursor |-> c, err |-> "", tok |-> tok]
PErr(c, e) == [cursor |-> c, err |-> e, tok |-> None]
is_ok(r) == r.err = ""

is_fatal(e) == e \notin {"TooManyDigits", "ExpectedValidMnemonic", "ValidArgNotFound"}
attempt_parser(r) == IF is_ok(r) \/ is_fatal(r.err) THEN r ELSE POk(r.cursor, None)

peek(inp, c) == IF c < Len(inp) THEN Some(inp[c + 1]) ELSE None
is_done(inp, c) == c = Len(inp)
peek_is(inp, c, ch) == peek(inp, c) = Some(ch)
\* cursor after consume_char(ch)
consume_char(inp, c, ch) == IF peek_is(inp, c, ch) THEN c + 1 ELSE c
peek_chars(inp, c, s) ==
    c + Len(s) <= Len(inp) /\ \A i \in 1..Len(s) : inp[c + i] = s[i]

\* cursor after the longest run of characters of the set class
RECURSIVE take_while(_, _, _)
take_while(inp, c, class) ==
    IF c < Len(inp) /\ inp[c + 1] \in class THEN take_while(inp, c + 1, class) ELSE c

\* cursor at the next newline, or at the end of input
RECURSIVE skip_line(_, _)
skip_line(inp, c) == IF c < Len(inp) /\ inp[c + 1] # "\n" THEN skip_line(inp, c + 1) ELSE c

Whitespace == {" ", "\t"}
consume_all_whitespace(inp, c) == take_while(inp, c, Whitespace)

TokenComment(s) == [token |-> "Comment", text |-> s]
TokenIdentifier(s) == [token |-> "Identifier", text |-> s]
TokenLabel(s) == [token |-> "Label", text |-> s]
TokenLocalLabel(s) == [token |-> "LocalLabel", text |-> s]
TokenConstant(s, n) == [token |-> "Constant", text |-> s, number |-> n]
TokenMnemonic(s) == [token |-> "Mnemonic", text |-> s]
TokenDirectiveName(s) == [token |-> "DirectiveName", text |-> s]
TokenNumber(token, n) == [token |-> token, number |-> n]
TokenAddressMode(am) == [token |-> "AddressMode", address_mode |-> am]
TokenOperand(o) == [token |-> "Operand", operand |-> o]
TokenInstruction(i) == [token |-> "Instruction", instruction |-> i]
TokenDirective(d) == [token |-> "Directive", directive |-> d]

\* a parser called through a reference to it, as attempt_parser calls its argument
RECURSIVE parser(_, _, _)

Scanner_comment(inp, c) ==
    IF peek_is(inp, c, ";")
    THEN LET end == skip_line(inp, c)
         IN  POk(end, Some(TokenComment(collect(inp, c, end, FALSE))))
    ELSE POk(c, None)

Alphabetic == Range(Uppercase) \cup Range(Lowercase)
IdentifierChars == Alphabetic \cup Range(Digits) \cup {"_"}
HexDigits == Range(Digits) \cup {"A", "B", "C", "D", "E", "F", "a", "b", "c", "d", "e", "f"}
Scanner_identifier(inp, c) ==
    IF c < Len(inp) /\ is_alphabetic(inp[c + 1])
    THEN LET end == take_while(inp, c + 1, IdentifierChars)
         IN  POk(end, Some(TokenIdentifier(collect(inp, c, end, FALSE))))
    ELSE POk(c, None)

Scanner_label(inp, c) ==
    LET is_local == peek_is(inp, c, "@")
        identifier == parser("Scanner_identifier", inp, consume_char(inp, c, "@"))
    IN  IF ~is_some(identifier.tok) \/ ~peek_is(inp, identifier.cursor, ":")
        THEN POk(c, None)
        ELSE POk(identifier.cursor + 1,
                 Some(IF is_local THEN TokenLocalLabel(unwrap(identifier.tok).text)
                      ELSE TokenLabel(unwrap(identifier.tok).text)))

\* u16::from_str_radix / str::parse::<u16> over input[from..to): the value, or
\* U16Mod when the text is empty or the value does not fit
RECURSIVE from_str_radix(_, _, _, _)
from_str_radix(inp, from, to, radix) ==
    IF from >= to THEN U16Mod
    ELSE LET high == IF from + 1 = to THEN 0 ELSE from_str_radix(inp, from, to - 1, radix)
             value == high * radix + to_digit(inp[to])
         IN  IF high >= U16Mod \/ value >= U16Mod THEN U16Mod ELSE value

BinaryDigits == {"0", "1"}
HexRadix == 16
BinaryRadix == 2
DecimalRadix == 10

\* Scanner::number: tok is the u16
Scanner_number(inp, c) ==
    LET radix == CASE peek_is(inp, c, "$") -> HexRadix
                   [] peek_is(inp, c, "%") -> BinaryRadix
                   [] OTHER -> DecimalRadix
        parse_pos == IF radix = DecimalRadix THEN c ELSE c + 1
        end == CASE radix = HexRadix -> take_while(inp, parse_pos, HexDigits)
                 [] radix = BinaryRadix -> take_while(inp, parse_pos, BinaryDigits)
                 [] OTHER -> take_while(inp, parse_pos, Range(Digits))
        number == from_str_radix(inp, parse_pos, end, radix)
    IN  IF c < Len(inp) /\ (inp[c + 1] \in {"$", "%"} \/ is_digit(inp[c + 1]))
        THEN (IF number >= U16Mod THEN PErr(end, "ParseIntError") ELSE POk(end, Some(number)))
        ELSE POk(c, None)

\* ------------------------------------------------ scanner: expressions
\* references collected so far, cursor behind the last one
RECURSIVE scoped_reference_tail(_, _, _)
scoped_reference_tail(inp, c, references) ==
    IF peek_chars(inp, c, <<":", ":">>)
    THEN LET id == parser("Scanner_identifier", inp, c + 2)
         IN  IF is_some(id.tok)
             THEN scoped_reference_tail(inp, id.cursor, Append(references, unwrap(id.tok).text))
             ELSE PErr(id.cursor, "UnexpectedEndOfInput")
    ELSE IF Len(references) > 1
         THEN POk(c, Some(ScopedReference(references)))
         ELSE POk(c, Some(Identifier(references[1])))

parse_scoped_reference(inp, c) ==
    LET id == parser("Scanner_identifier", inp, c)
    IN  IF is_some(id.tok)
        THEN scoped_reference_tail(inp, id.cursor, <<unwrap(id.tok).text>>)
        ELSE POk(c, None)

\* an operator parser that steps over two characters without looking at the second
high_precedence_operator_unchecked(inp, c) ==
    CASE peek_is(inp, c, "*") -> POk(c + 1, Some("Multiply"))
      [] peek_is(inp, c, "/") -> POk(c + 1, Some("Divide"))
      [] peek_is(inp, c, "<") -> POk(c + 2, Some("ShiftLeft"))
      [] peek_is(inp, c, ">") -> POk(c + 2, Some("ShiftRight"))
      [] OTHER -> POk(c, None)

\* an operator parser that takes `+` for an operator of the tighter level
high_precedence_operator_with_add(inp, c) ==
    CASE peek_is(inp, c, "+") -> POk(c + 1, Some("Add"))
      [] peek_is(inp, c, "*") -> POk(c + 1, Some("Multiply"))
      [] peek_is(inp, c, "/") -> POk(c + 1, Some("Divide"))
      [] OTHER -> POk(c, None)

high_precedence_operator(inp, c) ==
    CASE peek_is(inp, c, "*") -> POk(c + 1, Some("Multiply"))
      [] peek_is(inp, c, "/") -> POk(c + 1, Some("Divide"))
      [] peek_is(inp, c, "<") ->
            IF peek_is(inp, c + 1, "<") THEN POk(c + 2, Some("ShiftLeft")) ELSE POk(c, None)
      [] peek_is(inp, c, ">") ->
            IF peek_is(inp, c + 1, ">") THEN POk(c + 2, Some("ShiftRight")) ELSE POk(c, None)
      [] OTHER -> POk(c, None)

low_precedence_operator(inp, c) ==
    CASE peek_is(inp, c, "+") -> POk(c + 1, Some("Add"))
      [] peek_is(inp, c, "-") -> POk(c + 1, Some("Subtract"))
      [] peek_is(inp, c, "|") -> POk(c + 1, Some("Or"))
      [] peek_is(inp, c, "&") -> POk(c + 1, Some("And"))
      [] OTHER -> POk(c, None)

RECURSIVE expression_loop(_, _, _)
RECURSIVE term_loop(_, _, _)

Scanner_expression(inp, c) ==
    LET left == parser("Scanner_term", inp, c)
    IN  IF ~is_ok(left) \/ ~is_some(left.tok) THEN left
        ELSE expression_loop(inp, left.cursor, unwrap(left.tok))

expression_loop(inp, c, left) ==
    LET op == parser("low_precedence_operator", inp, c)
        right == parser("Scanner_term", inp, op.cursor)
    IN  IF ~is_some(op.tok) THEN POk(c, Some(left))
        ELSE IF ~is_ok(right) \/ ~is_some(right.tok) THEN right
        ELSE expression_loop(inp, right.cursor, BinOp(unwrap(op.tok), left, unwrap(right.tok)))

Scanner_term(inp, c) ==
    LET left == parser("Scanner_factor", inp, c)
    IN  IF ~is_ok(left) \/ ~is_some(left.tok) THEN left
        ELSE term_loop(inp, left.cursor, unwrap(left.tok))

term_loop(inp, c, left) ==
    LET op == parser("high_precedence_operator", inp, c)
        right == parser("Scanner_factor", inp, op.cursor)
    IN  IF ~is_some(op.tok) THEN POk(c, Some(left))
        ELSE IF ~is_ok(right) \/ ~is_some(right.tok) THEN right
        ELSE term_loop(inp, right.cursor, BinOp(unwrap(op.tok), left, unwrap(right.tok)))

Scanner_factor(inp, c) ==
    LET start == consume_all_whitespace(inp, c)
        num == parser("Scanner_number", inp, start)
        ref_expr == parser("parse_scoped_reference", inp, start)
        token == parser("Scanner_identifier", inp, start)
        expr == parser("Scanner_expression", inp, start + 1)
        close(r) == POk(consume_all_whitespace(inp, r.cursor), r.tok)
    IN  IF ~is_ok(num) THEN num
        ELSE IF is_some(num.tok) THEN close(POk(num.cursor, Some(Number(unwrap(num.tok)))))
        ELSE IF ~is_ok(ref_expr) THEN ref_expr
        ELSE IF is_some(ref_expr.tok) THEN close(ref_expr)
        ELSE IF is_some(token.tok)
             THEN close(POk(token.cursor, Some(Identifier(unwrap(token.tok).text))))
        ELSE IF peek_is(inp, start, "(")
             THEN IF ~is_ok(expr) \/ ~is_some(expr.tok) THEN expr
                  ELSE IF ~peek_is(inp, expr.cursor, ")")
                       THEN PErr(expr.cursor, "MissingClosingParenthesis")
                       ELSE close(POk(expr.cursor + 1, Some(Parenthesized(unwrap(expr.tok)))))
        ELSE POk(start, None)

\* ---------------------------------------------- scanner: address modes
\* the digit loop shared by address_u16, address_u8 and literal_u8: exactly
\* hex_size hex digits from digits_pos on, start_pos is where the cursor goes back
fixed_hex(inp, start_pos, digits_pos, hex_size, token) ==
    LET run == take_while(inp, digits_pos, HexDigits) - digits_pos
        count == IF run < hex_size THEN run ELSE hex_size
        end == digits_pos + count
    IN  IF count # hex_size /\ end < Len(inp) THEN PErr(end, "ParseIntError")
        ELSE IF end < Len(inp) /\ is_ascii_hexdigit(inp[end + 1]) THEN PErr(end, "TooManyDigits")
        ELSE IF count # hex_size THEN POk(start_pos, None)
        ELSE POk(end, Some(TokenNumber(token, from_str_radix(inp, digits_pos, end, HexRadix))))

U16HexSize == 4
U8HexSize == 2

address_u16(inp, c) ==
    IF peek_is(inp, c, "$") THEN fixed_hex(inp, c, c + 1, U16HexSize, "AddressU16")
    ELSE POk(c, None)

address_u8(inp, c) ==
    IF peek_is(inp, c, "$") THEN fixed_hex(inp, c, c + 1, U8HexSize, "AddressU8")
    ELSE POk(c, None)

literal_u8(inp, c) ==
    IF peek_is(inp, c, "#") /\ peek_is(inp, c + 1, "$")
    THEN fixed_hex(inp, c, c + 2, U8HexSize, "LiteralU8")
    ELSE POk(c, None)

\* the address-or-name part of a mode: the fixed-size address when there is one,
\* else an expression that must be a lone identifier or scoped reference; any
\* other expression is the error `other`, or no match when `other` is ""
address_or_name(inp, start_pos, address, value, ident, scoped_ref, other) ==
    LET expr == parser("Scanner_expression", inp, address.cursor)
    IN  IF ~is_ok(address) THEN address
        ELSE IF is_some(address.tok)
             THEN POk(address.cursor, Some(AddressModeValue(value, unwrap(address.tok).number)))
        ELSE IF ~is_ok(expr) THEN expr
        ELSE IF ~is_some(expr.tok) THEN POk(start_pos, None)
        ELSE IF unwrap(expr.tok).node = "Identifier"
             THEN POk(expr.cursor, Some(AddressModeIdent(ident, unwrap(expr.tok).ident)))
        ELSE IF unwrap(expr.tok).node = "ScopedReference"
             THEN POk(expr.cursor, Some(AddressModeScopedRef(scoped_ref, unwrap(expr.tok).scoped_ref)))
        ELSE IF other = "" THEN POk(start_pos, None)
        ELSE PErr(expr.cursor, other)

\* [whitespace] "," [whitespace] index letter behind the address-or-name part
comma_index(inp, start_pos, mode, index) ==
    LET comma == consume_all_whitespace(inp, mode.cursor)
        letter == consume_all_whitespace(inp, comma + 1)
    IN  IF ~is_ok(mode) \/ ~is_some(mode.tok) THEN mode
        ELSE IF ~peek_is(inp, comma, ",") THEN POk(start_pos, None)
        ELSE IF ~(letter < Len(inp) /\ inp[letter + 1] \in index) THEN POk(start_pos, None)
        ELSE POk(letter + 1, mode.tok)

\* [whitespace] ")" behind what has been recognized
closing_parenthesis(inp, start_pos, mode) ==
    LET close == consume_all_whitespace(inp, mode.cursor)
    IN  IF ~is_ok(mode) \/ ~is_some(mode.tok) THEN mode
        ELSE IF ~peek_is(inp, close, ")") THEN POk(start_pos, None)
        ELSE POk(close + 1, mode.tok)

as_token(mode) ==
    IF is_ok(mode) /\ is_some(mode.tok)
    THEN POk(mode.cursor, Some(TokenAddressMode(unwrap(mode.tok))))
    ELSE mode

IndexX == {"X", "x"}
IndexY == {"Y", "y"}

immediate_mode(inp, c) ==
    LET address == parser("literal_u8", inp, c)
        expr == address_or_name(inp, c, POk(c + 1, None), "Immediate", "ImmediateIdent",
                                "ImmediateScopedRef", "ExpectedLiteralU8")
    IN  IF ~is_ok(address) THEN address
        ELSE IF is_some(address.tok)
             THEN as_token(POk(address.cursor,
                               Some(AddressModeValue("Immediate", unwrap(address.tok).number))))
        ELSE IF ~peek_is(inp, c, "#") THEN POk(c, None)
        ELSE as_token(expr)

zero_page_mode(inp, c) ==
    as_token(address_or_name(inp, c, parser("address_u8", inp, c), "ZeroPage", "ZeroPageOrAbsoluteIdent",
                             "ZeroPageOrAbsoluteScopedRef", "ExpectedAddressU8"))

zero_page_x_mode(inp, c) ==
    as_token(comma_index(inp, c,
        address_or_name(inp, c, parser("address_u8", inp, c), "ZeroPageX", "ZeroPageOrAbsoluteXIdent",
                        "ZeroPageOrAbsoluteXScopedRef", "ExpectedAddressU8"),
        IndexX))

zero_page_y_mode(inp, c) ==
    as_token(comma_index(inp, c,
        address_or_name(inp, c, parser("address_u8", inp, c), "ZeroPageY", "ZeroPageOrAbsoluteYIdent",
                        "ZeroPageOrAbsoluteYScopedRef", "ExpectedAddressU8"),
        IndexY))

absolute_mode(inp, c) ==
    as_token(address_or_name(inp, c, parser("address_u16", inp, c), "Absolute", "ZeroPageOrAbsoluteIdent",
                             "ZeroPageOrAbsoluteScopedRef", "ExpectedAddressU8"))

absolute_x_mode(inp, c) ==
    as_token(comma_index(inp, c,
        address_or_name(inp, c, parser("address_u16", inp, c), "AbsoluteX", "ZeroPageOrAbsoluteXIdent",
                        "ZeroPageOrAbsoluteXScopedRef", "ExpectedAddressU8"),
        IndexX))

absolute_y_mode(inp, c) ==
    as_token(comma_index(inp, c,
        address_or_name(inp, c, parser("address_u16", inp, c), "AbsoluteY", "ZeroPageOrAbsoluteYIdent",
                        "ZeroPageOrAbsoluteYScopedRef", "ExpectedAddressU8"),
        IndexY))

indexed_indirect_x_mode(inp, c) ==
    LET open == consume_all_whitespace(inp, c + 1)
    IN  IF ~peek_is(inp, c, "(") THEN POk(c, None)
        ELSE as_token(closing_parenthesis(inp, c,
                comma_index(inp, c,
                    address_or_name(inp, c, parser("address_u8", inp, open), "IndexedIndirectX",
                                    "IndexedIndirectXIdent", "IndexedIndirectXScopedRef", ""),
                    IndexX)))

indirect_index_y_mode(inp, c) ==
    LET open == consume_all_whitespace(inp, c + 1)
    IN  IF ~peek_is(inp, c, "(") THEN POk(c, None)
        ELSE as_token(comma_index(inp, c,
                closing_parenthesis(inp, c,
                    address_or_name(inp, c, parser("address_u8", inp, open), "IndirectIndexY",
                                    "IndirectIndexYIdent", "IndirectIndexYScopedRef", "")),
                IndexY))

\* the dispatcher: the first recognizer, in this order, that returns a token;
\* a fatal error of a recognizer ends the dispatch
RECURSIVE first_mode(_, _, _)
first_mode(inp, c, k) ==
    LET r == attempt_parser(
                CASE k = 1 -> parser("indexed_indirect_x_mode", inp, c)
                  [] k = 2 -> parser("indirect_index_y_mode", inp, c)
                  [] k = 3 -> parser("zero_page_x_mode", inp, c)
                  [] k = 4 -> parser("zero_page_y_mode", inp, c)
                  [] k = 5 -> parser("zero_page_mode", inp, c)
                  [] k = 6 -> parser("immediate_mode", inp, c)
                  [] k = 7 -> parser("absolute_x_mode", inp, c)
                  [] k = 8 -> parser("absolute_y_mode", inp, c)
                  [] k = 9 -> parser("absolute_mode", inp, c))
    IN  IF k > 9 THEN POk(c, None)
        ELSE IF ~is_ok(r) \/ is_some(r.tok) THEN r
        ELSE first_mode(inp, c, k + 1)

\* a dispatcher that starts with the plain zero-page variant
address_modes_from_zero_page(inp, c) == first_mode(inp, c, 5)

address_modes(inp, c) == first_mode(inp, c, 1)

\* ------------------------------- scanner: instructions, directives, lines
Scanner_mnemonic(inp, c) ==
    LET end == take_while(inp, c, Alphabetic)
        mnemonic == collect(inp, c, end, TRUE)
    IN  IF mnemonic \in Mnemonics THEN POk(end, Some(TokenMnemonic(mnemonic)))
        ELSE PErr(c, "ExpectedValidMnemonic")

Scanner_operand(inp, c) ==
    LET indirect == parser("indirect_index_y_mode", inp, c)
        expr == parser("Scanner_expression", inp, indirect.cursor)
        modes == attempt_parser(parser("address_modes", inp, c))
        ident == attempt_parser(parser("Scanner_identifier", inp, c + 1))
    IN  IF is_ok(indirect) /\ is_some(indirect.tok)
        THEN POk(indirect.cursor,
                 Some(TokenOperand(OperandAddressMode(unwrap(indirect.tok).address_mode))))
        ELSE IF is_ok(expr) /\ is_some(expr.tok)
                /\ unwrap(expr.tok).node \notin {"Identifier", "Number", "ScopedReference"}
        THEN POk(expr.cursor, Some(TokenOperand(OperandExpression(unwrap(expr.tok)))))
        ELSE IF ~is_ok(expr) /\ expr.err # "MissingClosingParenthesis" THEN expr
        ELSE IF ~is_ok(modes) THEN modes
        ELSE IF is_some(modes.tok)
        THEN POk(modes.cursor,
                 Some(TokenOperand(OperandAddressMode(unwrap(modes.tok).address_mode))))
        ELSE IF peek_is(inp, c, "@") /\ is_some(ident.tok)
        THEN POk(ident.cursor, Some(TokenOperand(OperandLocalLabel(unwrap(ident.tok).text))))
        ELSE IF ~is_ok(expr) THEN PErr(c, expr.err)
        ELSE POk(c, None)

Scanner_instruction(inp, c) ==
    LET mnemonic == parser("Scanner_mnemonic", inp, c)
        operand == parser("Scanner_operand", inp, consume_all_whitespace(inp, mnemonic.cursor))
    IN  IF ~is_ok(mnemonic) THEN mnemonic
        ELSE IF ~is_ok(operand) THEN operand
        ELSE POk(operand.cursor,
                 Some(TokenInstruction(Instruction(
                     unwrap(mnemonic.tok).text,
                     IF is_some(operand.tok) THEN Some(unwrap(operand.tok).operand) ELSE None))))

DirectiveNames == {"WORD", "ORG", "BYTE", "SEGMENT", "INCLUDE", "PROC", "ENDPROC", "ENUM",
                   "ENDENUM", "MACRO", "ENDMACRO", "SCOPE", "ENDSCOPE", "ADDR", "CODE"}

directive_list(inp, c) ==
    LET end == take_while(inp, c, Alphabetic)
        directive == collect(inp, c, end, TRUE)
    IN  IF directive \in DirectiveNames THEN POk(end, Some(TokenDirectiveName(directive)))
        ELSE POk(c, None)

\* directive_args_word, and directive_args_byte when byte is set: tok is the argument
directive_args(inp, c, byte) ==
    LET num == parser("Scanner_number", inp, c)
        expr == parser("Scanner_expression", inp, c)
        ident == parser("Scanner_identifier", inp, c)
    IN  IF ~is_ok(num) THEN num
        ELSE IF is_some(num.tok)
        THEN (IF byte /\ unwrap(num.tok) > U8Max THEN PErr(num.cursor, "ValueTooLarge")
              ELSE POk(num.cursor, Some(ArgValue(unwrap(num.tok)))))
        ELSE IF ~is_ok(expr) THEN expr
        ELSE IF is_some(expr.tok) /\ unwrap(expr.tok).node # "Identifier"
        THEN POk(expr.cursor, Some(ArgExpression(unwrap(expr.tok))))
        ELSE IF is_some(ident.tok) THEN POk(ident.cursor, Some(ArgIdentifier(unwrap(ident.tok).text)))
        ELSE PErr(c, "ValidArgNotFound")

directive_args_word(inp, c) == directive_args(inp, c, FALSE)
directive_args_byte(inp, c) == directive_args(inp, c, TRUE)

IncludeChars == IdentifierChars \cup {".", "/", "\\"}
directive_args_include(inp, c) ==
    LET end == take_while(inp, c, IncludeChars) IN POk(end, Some(collect(inp, c, end, FALSE)))

directive_args_org(inp, c) ==
    LET num == parser("Scanner_number", inp, c)
    IN  IF ~is_ok(num) \/ is_some(num.tok) THEN num ELSE PErr(c, "ValidArgNotFound")

\* the loop behind the first argument: "," argument, repeated
RECURSIVE args_loop(_, _, _, _)
args_loop(inp, c, args, byte) ==
    LET comma == consume_all_whitespace(inp, c)
        arg == directive_args(inp, consume_all_whitespace(inp, comma + 1), byte)
    IN  IF ~peek_is(inp, comma, ",") THEN POk(comma, Some(args))
        ELSE IF ~is_ok(arg) THEN arg
        ELSE IF ~is_some(arg.tok) THEN POk(arg.cursor, Some(args))
        ELSE args_loop(inp, arg.cursor, Append(args, unwrap(arg.tok)), byte)

\* BYTE, WORD and ADDR: at least one argument, then the loop
directive_args_list(inp, c, name, byte) ==
    LET arg == directive_args(inp, c, byte)
        args == args_loop(inp, arg.cursor, <<unwrap(arg.tok)>>, byte)
    IN  IF ~is_ok(arg) THEN arg
        ELSE IF ~is_some(arg.tok) THEN PErr(arg.cursor, "DirectiveWithNoArg")
        ELSE IF ~is_ok(args) THEN args
        ELSE POk(args.cursor, Some(TokenDirective(DirectiveList(name, unwrap(args.tok)))))

\* SEGMENT "name" and INCLUDE "file"
directive_quoted(inp, start_pos, c, name) ==
    LET arg == IF name = "SEGMENT" THEN parser("Scanner_identifier", inp, c + 1)
               ELSE parser("directive_args_include", inp, c + 1)
        text == IF name = "SEGMENT" THEN unwrap(arg.tok).text ELSE unwrap(arg.tok)
    IN  IF ~peek_is(inp, c, "\"") THEN POk(start_pos, None)
        ELSE IF ~is_some(arg.tok) THEN POk(start_pos, None)
        ELSE IF ~peek_is(inp, arg.cursor, "\"") THEN POk(start_pos, None)
        ELSE POk(arg.cursor + 1, Some(TokenDirective(DirectiveNamed(name, text))))

\* PROC, ENUM, SCOPE and MACRO name
directive_named(inp, start_pos, c, name) ==
    LET ident == parser("Scanner_identifier", inp, c)
    IN  IF ~is_some(ident.tok) THEN POk(start_pos, None)
        ELSE POk(ident.cursor, Some(TokenDirective(DirectiveNamed(name, unwrap(ident.tok).text))))

Scanner_directive(inp, c) ==
    LET directive_name == attempt_parser(parser("directive_list", inp, c + 1))
        name == unwrap(directive_name.tok).text
        args == consume_all_whitespace(inp, directive_name.cursor)
        org == parser("directive_args_org", inp, args)
    IN  IF ~peek_is(inp, c, ".") THEN POk(c, None)
        ELSE IF ~is_some(directive_name.tok) THEN POk(c, None)
        ELSE CASE name = "ORG" ->
                    IF ~is_ok(org) THEN org
                    ELSE POk(org.cursor, Some(TokenDirective(DirectiveORG(unwrap(org.tok)))))
               [] name = "BYTE" -> directive_args_list(inp, args, "BYTE", TRUE)
               [] name \in {"WORD", "ADDR"} -> directive_args_list(inp, args, "WORD", FALSE)
               [] name \in {"SEGMENT", "INCLUDE"} -> directive_quoted(inp, c, args, name)
               [] name \in {"PROC", "ENUM", "SCOPE", "MACRO"} -> directive_named(inp, c, args, name)
               [] name = "CODE" -> POk(args, Some(TokenDirective(DirectiveNamed("SEGMENT", "CODE"))))
               [] OTHER -> POk(args, Some(TokenDirective(DirectiveBare(name))))

Scanner_constant(inp, c) ==
    LET ident == attempt_parser(parser("Scanner_identifier", inp, c))
        equals == consume_all_whitespace(inp, ident.cursor)
        num == parser("Scanner_number", inp, consume_all_whitespace(inp, equals + 1))
    IN  IF ~is_some(ident.tok) THEN POk(c, None)
        ELSE IF ~peek_is(inp, equals, "=") THEN POk(c, None)
        ELSE IF ~is_ok(num) THEN num
        ELSE IF ~is_some(num.tok) THEN POk(c, None)
        ELSE POk(num.cursor, Some(TokenConstant(unwrap(ident.tok).text, unwrap(num.tok))))

\* Result<Line, ParseError> of Scanner::line with the cursor it leaves
LineOk(c, l) == [cursor |-> c, err |-> "", line |-> Some(l)]
LineErr(c, e) == [cursor |-> c, err |-> e, line |-> None]

\* the end of a line that accepts whatever follows
end_of_line_accepts_anything(inp, c, comment, constant, label, main_component) ==
    LET end == take_while(inp, c, {"\n"})
    IN  LineOk(end, Line(comment, constant, label, main_component, end - c))

\* the end of a line that records one newline however many it consumed
end_of_line_counts_one(inp, c, comment, constant, label, main_component) ==
    LET end == take_while(inp, c, {"\n"})
    IN  IF end = c /\ ~is_done(inp, end) THEN LineErr(end, "ExpectedNewline")
        ELSE LineOk(end, Line(comment, constant, label, main_component, IF end = c THEN 0 ELSE 1))

\* the end of every path of line(): the newlines, and the check that there was
\* at least one or the input is done
end_of_line(inp, c, comment, constant, label, main_component) ==
    LET end == take_while(inp, c, {"\n"})
        newline_count == end - c
    IN  IF newline_count = 0 /\ ~is_done(inp, end) THEN LineErr(end, "ExpectedNewline")
        ELSE LineOk(end, Line(comment, constant, label, main_component, newline_count))

comment_text(r) == IF is_some(r.tok) THEN Some(unwrap(r.tok).text) ELSE None

Scanner_line(inp, c) ==
    LET start == consume_all_whitespace(inp, c)
        comment == attempt_parser(parser("Scanner_comment", inp, start))
        constant == attempt_parser(parser("Scanner_constant", inp, start))
        constant_comment ==
            attempt_parser(parser("Scanner_comment", inp, consume_all_whitespace(inp, constant.cursor)))
        label == attempt_parser(parser("Scanner_label", inp, start))
        instruction == attempt_parser(
                          parser("Scanner_instruction", inp, consume_all_whitespace(inp, label.cursor)))
        directive == attempt_parser(parser("Scanner_directive", inp, instruction.cursor))
        main == IF ~is_ok(instruction) \/ is_some(instruction.tok) THEN instruction ELSE directive
        main_comment == attempt_parser(parser("Scanner_comment", inp, consume_all_whitespace(inp, main.cursor)))
    IN  IF is_some(comment.tok)
        THEN end_of_line(inp, consume_all_whitespace(inp, comment.cursor),
                         comment_text(comment), None, None, None)
        ELSE IF ~is_ok(constant) THEN LineErr(constant.cursor, constant.err)
        ELSE IF is_some(constant.tok)
        THEN end_of_line(inp, constant_comment.cursor, comment_text(constant_comment),
                         Some(<<unwrap(constant.tok).text, unwrap(constant.tok).number>>),
                         None, None)
        ELSE IF ~is_ok(main) THEN LineErr(main.cursor, main.err)
        ELSE end_of_line(inp, main_comment.cursor, comment_text(main_comment), None,
                         IF ~is_some(label.tok) THEN None
                         ELSE IF unwrap(label.tok).token = "Label"
                              THEN Some(Label(unwrap(label.tok).text))
                              ELSE Some(LocalLabel(unwrap(label.tok).text)),
                         IF ~is_some(main.tok) THEN None
                         ELSE IF unwrap(main.tok).token = "Instruction"
                              THEN Some(MainInstruction(unwrap(main.tok).instruction))
                              ELSE Some(MainDirective(unwrap(main.tok).directive)))

parser(name, inp, c) ==
    CASE name = "Scanner_comment" -> Scanner_comment(inp, c)
      [] name = "Scanner_identifier" -> Scanner_identifier(inp, c)
      [] name = "Scanner_label" -> Scanner_label(inp, c)
      [] name = "Scanner_number" -> Scanner_number(inp, c)
      [] name = "parse_scoped_reference" -> parse_scoped_reference(inp, c)
      [] name = "high_precedence_operator" -> high_precedence_operator(inp, c)
      [] name = "low_precedence_operator" -> low_precedence_operator(inp, c)
      [] name = "Scanner_expression" -> Scanner_expression(inp, c)
      [] name = "Scanner_term" -> Scanner_term(inp, c)
      [] name = "Scanner_factor" -> Scanner_factor(inp, c)
      [] name = "address_u16" -> address_u16(inp, c)
      [] name = "address_u8" -> address_u8(inp, c)
      [] name = "literal_u8" -> literal_u8(inp, c)
      [] name = "immediate_mode" -> immediate_mode(inp, c)
      [] name = "zero_page_mode" -> zero_page_mode(inp, c)
      [] name = "zero_page_x_mode" -> zero_page_x_mode(inp, c)
      [] name = "zero_page_y_mode" -> zero_page_y_mode(inp, c)
      [] name = "absolute_mode" -> absolute_mode(inp, c)
      [] name = "absolute_x_mode" -> absolute_x_mode(inp, c)
      [] name = "absolute_y_mode" -> absolute_y_mode(inp, c)
      [] name = "indexed_indirect_x_mode" -> indexed_indirect_x_mode(inp, c)
      [] name = "indirect_index_y_mode" -> indirect_index_y_mode(inp, c)
      [] name = "address_modes" -> address_modes(inp, c)
      [] name = "Scanner_mnemonic" -> Scanner_mnemonic(inp, c)
      [] name = "Scanner_operand" -> Scanner_operand(inp, c)
      [] name = "Scanner_instruction" -> Scanner_instruction(inp, c)
      [] name = "directive_list" -> directive_list(inp, c)
      [] name = "directive_args_word" -> directive_args_word(inp, c)
      [] name = "directive_args_byte" -> directive_args_byte(inp, c)
      [] name = "directive_args_include" -> directive_args_include(inp, c)
      [] name = "directive_args_org" -> directive_args_org(inp, c)
      [] name = "Scanner_directive" -> Scanner_directive(inp, c)
      [] name = "Scanner_constant" -> Scanner_constant(inp, c)
      [] name = "Scanner_line" -> Scanner_line(inp, c)

\* ------------------------------------------------------------ parse_file
\* one iteration of the loop of parse_file: Scanner::line, then the push of the
\* line or the exit on its error
parse_file ==
    /\ pc = "parse"
    /\ parse_error = ""
    /\ ~is_done(input, cursor)
    /\ LET r == parser("Scanner_line", input, cursor)
       IN  /\ cursor' = r.cursor
           /\ parse_error' = r.err
           /\ line_list' = IF is_ok(r) THEN Append(line_list, unwrap(r.line)) ELSE line_list
           /\ scanner_lines' = IF is_ok(r) THEN scanner_lines + unwrap(r.line).newlines
                               ELSE scanner_lines
           /\ pc' = IF is_ok(r) /\ is_done(input, r.cursor) THEN "parsed" ELSE "parse"
    /\ UNCHANGED <<input, lines, constant_map, label_map, offset_tracker, idx, result,
                   gen_operand, opcode, fault, returned, overflow_checks, parsers, called,
                   parsed>>

NextScan == parse_file

\* ----------------------------------------------------------- parser calls
\* one call of a parser of the Scanner at the cursor, directly or through
\* attempt_parser; an error ends the calls
call_parser ==
    /\ pc = "scan"
    /\ parse_error = ""
    /\ \E name \in parsers, attempt \in BOOLEAN :
          LET r == IF attempt THEN attempt_parser(parser(name, input, cursor))
                   ELSE parser(name, input, cursor)
          IN  /\ cursor' = r.cursor
              /\ parse_error' = r.err
              /\ parsed' = r.tok
              /\ called' = name
    /\ UNCHANGED <<input, scanner_lines, line_list, parsers, resolver_vars>>

NextCalls == call_parser

\* ----------------------------------------------------------------- inputs
ConstLine(name, v) == Line(None, Some(<<name, v>>), None, None, 1)
CodeLine(label, main) == Line(None, None, label, main, 1)
Instr(m, operand) == Some(MainInstruction(Instruction(m, operand)))
Mode(am) == Some(OperandAddressMode(am))

APlus(n) == BinOp("Add", Identifier("A"), Number(n))

LineKinds == {
    ConstLine("A", 16),
    ConstLine("A", 8194),
    CodeLine(Some(Label("A")), None),
    CodeLine(Some(LocalLabel("B")), Instr("TAX", None)),
    CodeLine(None, Instr("JMP", Mode(AddressModeIdent("ZeroPageOrAbsoluteIdent", "A")))),
    CodeLine(None, Instr("LDA", Mode(AddressModeIdent("ZeroPageOrAbsoluteIdent", "A")))),
    CodeLine(None, Instr("LDA", Mode(AddressModeIdent("ZeroPageOrAbsoluteXIdent", "A")))),
    CodeLine(None, Instr("LDX", Mode(AddressModeIdent("ZeroPageOrAbsoluteYIdent", "A")))),
    CodeLine(None, Instr("LDA", Mode(AddressModeIdent("ImmediateIdent", "A")))),
    CodeLine(None, Instr("LDA", Mode(AddressModeIdent("IndexedIndirectXIdent", "A")))),
    CodeLine(None, Instr("LDA", Mode(AddressModeIdent("IndirectIndexYIdent", "A")))),
    CodeLine(None, Instr("LDA", Mode(AddressModeScopedRef("ZeroPageOrAbsoluteScopedRef",
                                                         <<"S", "T">>)))),
    CodeLine(None, Instr("STA", Mode(AddressModeValue("Absolute", 8192)))),
    CodeLine(None, Instr("LDA", Some(OperandExpression(APlus(1))))),
    CodeLine(None, Instr("BNE", Some(OperandLocalLabel("B")))),
    CodeLine(None, Some(MainDirective(DirectiveList("BYTE",
                            <<ArgValue(1), ArgExpression(APlus(239))>>)))),
    CodeLine(None, Some(MainDirective(DirectiveList("WORD", <<ArgExpression(APlus(1))>>)))),
    CodeLine(None, Some(MainDirective(DirectiveORG(32768)))) }

RECURSIVE Programs(_)
Programs(n) ==
    IF n = 0 THEN {<<>>}
    ELSE LET shorter == Programs(n - 1) IN
         shorter \cup {Append(p, l) : p \in {q \in shorter : Len(q) = n - 1}, l \in LineKinds}

InitWith(programs) ==
    /\ lines \in programs
    /\ overflow_checks \in BOOLEAN
    /\ constant_map = EmptyMap
    /\ label_map = EmptyMap
    /\ offset_tracker = 0
    /\ pc = IF lines = <<>> THEN "done" ELSE "pass1"
    /\ idx = 0
    /\ result = ""
    /\ gen_operand = ""
    /\ opcode = None
    /\ fault = NoFault
    /\ returned = IF lines = <<>> THEN Some(bytes) ELSE None
    /\ input = <<>>
    /\ cursor = 0
    /\ scanner_lines = 0
    /\ line_list = <<>>
    /\ parse_error = ""
    /\ parsers = {}
    /\ called = ""
    /\ parsed = None

Init == InitWith(Programs(MaxLines))

Spec == Init /\ [][Next]_vars

\* one-line programs over every operand shape and every directive, alone or
\* after a line defining the constant A or the label B
ValueModes == {"Immediate", "ZeroPage", "ZeroPageX", "ZeroPageY", "IndexedIndirectX",
               "IndirectIndexY", "Absolute", "AbsoluteX", "AbsoluteY"}
IdentModes == {"ZeroPageOrAbsoluteIdent", "ZeroPageOrAbsoluteXIdent",
               "ZeroPageOrAbsoluteYIdent", "ImmediateIdent", "IndexedIndirectXIdent",
               "IndirectIndexYIdent"}
ScopedRefModes == {"ZeroPageOrAbsoluteScopedRef", "ZeroPageOrAbsoluteXScopedRef",
                   "ZeroPageOrAbsoluteYScopedRef", "ImmediateScopedRef",
                   "IndexedIndirectXScopedRef", "IndirectIndexYScopedRef"}

ShapeOperands ==
    {None, Mode(Accumulator), Some(OperandExpression(APlus(1))), Some(OperandLocalLabel("B"))}
    \cup {Mode(AddressModeValue(v, IF v \in EightBitModes THEN 68 ELSE 8192)) : v \in ValueModes}
    \cup {Mode(AddressModeIdent(v, "A")) : v \in IdentModes}
    \cup {Mode(AddressModeScopedRef(v, <<"S", "T">>)) : v \in ScopedRefModes}

ShapeMnemonics == {"LDA", "LDX", "STA", "ASL", "BNE", "TAX"}
ArgCounts == {1, 2, 127, 128, 129, 255, 256, 257}
NamedDirectives == {"SEGMENT", "PROC", "INCLUDE", "ENUM", "MACRO", "SCOPE"}
BareDirectives == {"ENDPROC", "ENDENUM", "ENDMACRO", "ENDSCOPE"}

ShapeLines ==
    {CodeLine(None, Instr(m, o)) : m \in ShapeMnemonics, o \in ShapeOperands}
    \cup {CodeLine(None, Some(MainDirective(DirectiveList(d, [i \in 1..n |-> ArgValue(i % U8Mod)]))))
            : d \in {"BYTE", "WORD"}, n \in ArgCounts}
    \cup {CodeLine(None, Some(MainDirective(DirectiveNamed(d, "X")))) : d \in NamedDirectives}
    \cup {CodeLine(None, Some(MainDirective(DirectiveBare(d)))) : d \in BareDirectives}
    \cup {CodeLine(None, Some(MainDirective(DirectiveORG(32768))))}

ShapePrograms ==
    {<<l>> : l \in ShapeLines}
    \cup {<<ConstLine("A", v), l>> : v \in {16, 8194}, l \in ShapeLines}
    \cup {<<CodeLine(Some(b), None), l>> : b \in {Label("B"), LocalLabel("B")}, l \in ShapeLines}

InitShapes == InitWith(ShapePrograms)

SpecShapes == InitShapes /\ [][Next]_vars

\* programs larger than the 16-bit offset space: FillLen lines of 255 bytes each
\* bring the counter to 0xFFFF, two labelled lines follow
FillLen == (U16Mod - 1) \div U8Max
FillLine == CodeLine(None, Some(MainDirective(DirectiveList("BYTE", [i \in 1..U8Max |-> ArgValue(0)]))))
LongTails ==
    {<<CodeLine(Some(Label("A")), m), CodeLine(Some(l), Instr("TAX", None))>> :
        m \in {FillLine.main_component, Instr("TAX", None)},
        l \in {Label("B"), LocalLabel("B")}}
LongPrograms == {[i \in 1..FillLen |-> FillLine] \o t : t \in LongTails}

InitLong == InitWith(LongPrograms)

SpecLong == InitLong /\ [][Next]_vars

\* programs of one WORD directive whose argument is an expression: every
\* operator over operands at the edges of u16, the expression of
\* test_eval_expression, nested and parenthesized trees
EvalValues == {0, 1, 3, 16, 17, 255, 256, 65535}
BinaryOps == {"Add", "Subtract", "Multiply", "Divide", "And", "Or", "ShiftLeft", "ShiftRight"}
WordLine(e) == CodeLine(None, Some(MainDirective(DirectiveList("WORD", <<ArgExpression(e)>>))))
TestExpression ==
    BinOp("Or",
          Parenthesized(BinOp("ShiftLeft",
                              Parenthesized(BinOp("And", Identifier("mapper"), Number(15))),
                              Number(4))),
          Parenthesized(BinOp("And", Identifier("mirroring"), Number(1))))
EvalPrograms ==
    {<<WordLine(BinOp(op, Number(a), Number(b)))>> : op \in BinaryOps, a \in EvalValues, b \in EvalValues}
    \cup {<<WordLine(BinOp("Add", BinOp("Multiply", Number(a), Number(255)), Number(b)))>> :
            a \in EvalValues, b \in EvalValues}
    \cup {<<ConstLine("A", a), WordLine(BinOp(op, Parenthesized(Identifier("A")), Number(1)))>> :
            op \in BinaryOps, a \in EvalValues}
    \cup {<<ConstLine("mapper", a), ConstLine("mirroring", b), WordLine(TestExpression)>> :
            a \in {0, 3}, b \in {1, 16}}

InitEval == InitWith(EvalPrograms)

SpecEval == InitEval /\ [][Next]_vars

\* source texts: an optional label, a main part, the end of the line and an
\* optional second line
Heads == {<<>>, <<"A", ":", " ">>, <<"@", "B", ":">>}
DirectiveTexts == {<<".", "b", "y", "t", "e">>, <<".", "B", "Y", "T", "E">>, <<".", "w", "o", "r", "d">>, <<".", "a", "d", "d", "r">>}
ArgTexts == {<<>>, <<" ">>, <<" ", "1">>, <<" ", "1", ",">>, <<" ", "1", ",", " ", "2">>, <<" ", "1", ",", " ", "2", ",">>, <<" ", "1", " ", ",", " ", "2", " ", ",", " ">>,
             <<" ", "$", "1", "0", ",", " ", "A", ",">>, <<" ", "A", "+", "1", ",">>, <<" ", "A">>, <<" ", "2", "5", "6">>, <<" ", ",">>}
OtherMains == {<<>>, <<"T", "A", "X">>, <<"L", "D", "A", " ", "#", "$", "4", "4">>, <<"S", "T", "A", " ", "$", "2", "0", "0", "0">>, <<"L", "D", "A", " ", "(", "$", "4", "4", ")", ",", "Y">>, <<"L", "D", "A", " ", "A", " ", ",", " ", "x">>,
               <<"b", "n", "e", " ", "@", "B">>, <<"L", "D", "A", " ", "A", "+", "1">>, <<"A", "S", "L">>, <<"J", "M", "P", " ", "A">>, <<"L", "D", "A", " ", "$", "2", "0", "0">>, <<"A", " ", "=", " ", "$", "1", "0">>,
               <<".", "o", "r", "g", " ", "$", "8", "0", "0", "0">>, <<".", "s", "e", "g", "m", "e", "n", "t", " ", "\"", "C", "O", "D", "E", "\"">>, <<".", "e", "n", "d", "p", "r", "o", "c">>, <<".", "p", "r", "o", "c">>, <<".", "i", "n", "c", "l", "u", "d", "e", " ", "\"", "a", ".", "s", "\"">>,
               <<";", " ", "c">>, <<".", "b", "y", "t", "e", " ", "1", " ", "2">>}
Mains == {d \o a : d \in DirectiveTexts, a \in ArgTexts} \cup OtherMains
Tails == {<<>>, <<"\n">>, <<" ", ";", " ", "c", "\n">>, <<" ", "\n", "\n">>}
SecondLines == {<<>>, <<"T", "A", "X">>, <<".", "b", "y", "t", "e", " ", "2", "\n">>,
                <<"T", "A", "X", " ", ",">>}
ScanInputs == {h \o m \o t \o s : h \in Heads, m \in Mains, t \in Tails, s \in SecondLines}

InitScan ==
    /\ input \in ScanInputs
    /\ cursor = 0
    /\ scanner_lines = 0
    /\ line_list = <<>>
    /\ parse_error = ""
    /\ parsers = {}
    /\ called = ""
    /\ parsed = None
    /\ pc = "parse"
    /\ lines = <<>>
    /\ overflow_checks \in BOOLEAN
    /\ constant_map = EmptyMap
    /\ label_map = EmptyMap
    /\ offset_tracker = 0
    /\ idx = 0
    /\ result = ""
    /\ gen_operand = ""
    /\ opcode = None
    /\ fault = NoFault
    /\ returned = None

SpecScan == InitScan /\ [][NextScan]_vars

\* parser calls on a text from the start: the state after Scanner::new
InitCalls(texts, names) ==
    /\ input \in texts
    /\ parsers = names
    /\ called = ""
    /\ parsed = None
    /\ cursor = 0
    /\ scanner_lines = 0
    /\ line_list = <<>>
    /\ parse_error = ""
    /\ pc = "scan"
    /\ lines = <<>>
    /\ overflow_checks \in BOOLEAN
    /\ constant_map = EmptyMap
    /\ label_map = EmptyMap
    /\ offset_tracker = 0
    /\ idx = 0
    /\ result = ""
    /\ gen_operand = ""
    /\ opcode = None
    /\ fault = NoFault
    /\ returned = None

\* expression texts: three operands, two operators, with or without a
\* parenthesized pair, each paired with its operands, operators and grouping
FirstOperands == {<<<<"a">>, Identifier("a")>>, <<<<"$", "0", "f">>, Number(15)>>}
SecondOperands == {<<<<"b">>, Identifier("b")>>, <<<<"1", "0">>, Number(10)>>}
ThirdOperands == {<<<<"c">>, Identifier("c")>>, <<<<"%", "1", "1">>, Number(3)>>}
LowOperators == {<<<<"+">>, "Add">>, <<<<"-">>, "Subtract">>, <<<<"|">>, "Or">>, <<<<"&">>, "And">>}
HighOperators == {<<<<"*">>, "Multiply">>, <<<<"/">>, "Divide">>, <<<<"<", "<">>, "ShiftLeft">>,
                  <<<<">", ">">>, "ShiftRight">>}
Operators == LowOperators \cup HighOperators
Spacings == {<<>>, <<" ">>, <<"\t", " ">>}
Groupings == {"flat", "left", "right"}

expression_text(x, o1, y, o2, z, sp, grouping) ==
    CASE grouping = "flat" -> x[1] \o sp \o o1[1] \o sp \o y[1] \o sp \o o2[1] \o sp \o z[1]
      [] grouping = "left" ->
            <<"(">> \o sp \o x[1] \o sp \o o1[1] \o sp \o y[1] \o sp \o <<")">> \o sp \o o2[1] \o sp \o z[1]
      [] grouping = "right" ->
            x[1] \o sp \o o1[1] \o sp \o <<"(">> \o sp \o y[1] \o sp \o o2[1] \o sp \o z[1] \o sp \o <<")">>

ExpressionCases ==
    {[text |-> expression_text(x, o1, y, o2, z, sp, g), x |-> x[2], o1 |-> o1[2], y |-> y[2],
      o2 |-> o2[2], z |-> z[2], grouping |-> g] :
        x \in FirstOperands, o1 \in Operators, y \in SecondOperands, o2 \in Operators,
        z \in ThirdOperands, sp \in Spacings, g \in Groupings}

ExpressionTexts == {e.text : e \in ExpressionCases}

InitExpressions == InitCalls(ExpressionTexts, {"Scanner_expression"})
SpecExpressions == InitExpressions /\ [][NextCalls]_vars

\* operand texts: a number or a name in each of the address-mode notations,
\* paired with the variant the notation stands for
ZeroPageNumbers == {<<<<"$", "4", "4">>, 68>>, <<<<"$", "0", "0">>, 0>>, <<<<"$", "f", "F">>, 255>>}
AbsoluteNumbers == {<<<<"$", "4", "4", "0", "0">>, 17408>>, <<<<"$", "0", "0", "f", "f">>, 255>>, <<<<"$", "F", "F", "F", "F">>, 65535>>}
IdentifierNames == {<<<<"A">>, "A">>, <<<<"l", "o", "o", "p", "_", "1">>, "loop_1">>}
ScopedNames == {<<<<"J", "o", "y", "p", "a", "d", ":", ":", "D", "o", "w", "n">>, <<"Joypad", "Down">>>>}
Notations ==
    {[pre |-> <<>>, post |-> <<>>, short |-> "ZeroPage", long |-> "Absolute",
      ident |-> "ZeroPageOrAbsoluteIdent", scoped_ref |-> "ZeroPageOrAbsoluteScopedRef"],
     [pre |-> <<>>, post |-> <<",", "X">>, short |-> "ZeroPageX", long |-> "AbsoluteX",
      ident |-> "ZeroPageOrAbsoluteXIdent", scoped_ref |-> "ZeroPageOrAbsoluteXScopedRef"],
     [pre |-> <<>>, post |-> <<",", "Y">>, short |-> "ZeroPageY", long |-> "AbsoluteY",
      ident |-> "ZeroPageOrAbsoluteYIdent", scoped_ref |-> "ZeroPageOrAbsoluteYScopedRef"],
     [pre |-> <<"#">>, post |-> <<>>, short |-> "Immediate", long |-> "",
      ident |-> "ImmediateIdent", scoped_ref |-> "ImmediateScopedRef"],
     [pre |-> <<"(">>, post |-> <<",", "X", ")">>, short |-> "IndexedIndirectX", long |-> "",
      ident |-> "IndexedIndirectXIdent", scoped_ref |-> "IndexedIndirectXScopedRef"],
     [pre |-> <<"(">>, post |-> <<")", ",", "Y">>, short |-> "IndirectIndexY", long |-> "",
      ident |-> "IndirectIndexYIdent", scoped_ref |-> "IndirectIndexYScopedRef"]}
Followers == {<<>>, <<"\n">>, <<" ", ";", " ", "c">>}

OperandCases ==
    {[text |-> n.pre \o v[1] \o n.post \o f, mode |-> AddressModeValue(n.short, v[2])] :
        n \in Notations, v \in ZeroPageNumbers, f \in Followers}
    \cup {[text |-> n.pre \o v[1] \o n.post \o f, mode |-> AddressModeValue(n.long, v[2])] :
            n \in {m \in Notations : m.long # ""}, v \in AbsoluteNumbers, f \in Followers}
    \cup {[text |-> n.pre \o v[1] \o n.post \o f, mode |-> AddressModeIdent(n.ident, v[2])] :
            n \in Notations, v \in IdentifierNames, f \in Followers}
    \cup {[text |-> n.pre \o v[1] \o n.post \o f, mode |-> AddressModeScopedRef(n.scoped_ref, v[2])] :
            n \in Notations, v \in ScopedNames, f \in Followers}

OperandTexts == {o.text : o \in OperandCases}

InitOperands == InitCalls(OperandTexts, {"address_modes"})
SpecOperands == InitOperands /\ [][NextCalls]_vars

\* the parsers that line(), instruction(), directive() and address_modes run
\* through attempt_parser, and texts for them
AttemptedParsers ==
    {"Scanner_comment", "Scanner_constant", "Scanner_label", "Scanner_identifier",
     "Scanner_instruction", "Scanner_directive", "directive_list", "address_modes",
     "indexed_indirect_x_mode", "indirect_index_y_mode", "zero_page_x_mode", "zero_page_y_mode",
     "zero_page_mode", "immediate_mode", "absolute_x_mode", "absolute_y_mode", "absolute_mode"}
AttemptTexts ==
    {<<".", "b", "y", "t", "e">>, <<".", "b", "y", "t", "e", " ", "1", ",", " ", "2", ",">>, <<".", "w", "o", "r", "d">>, <<".", "o", "r", "g">>, <<".", "s", "e", "g", "m", "e", "n", "t">>, <<".", "p", "r", "o", "c">>, <<".", "n", "o", "t", "h", "i", "n", "g">>,
     <<".", "b", "y", "t", "e", " ", "1", ",", " ", "2">>, <<";", " ", "c">>, <<"A", " ", "=", " ", "$", "1", "0">>, <<"A", " ", "=", " ">>, <<"A", ":", " ">>, <<"A">>, <<"@", "B", ":">>, <<"@">>,
     <<"T", "A", "X">>, <<"L", "D", "A", " ", "#", "$", "4", "4">>, <<"L", "D", "A">>, <<"L", "D", "A", " ", "$", "4", "4", "0", "0">>, <<"X", "Y", "Z", " ", "$", "4", "4">>, <<"1">>, <<",">>, <<"\n">>, <<" ">>}
    \cup {o.text : o \in {p \in OperandCases : p.text[Len(p.text)] \notin {"\n", "c"}}}

InitAttempts == InitCalls(AttemptTexts, AttemptedParsers)
SpecAttempts == InitAttempts /\ [][NextCalls]_vars

\* hex address texts: `$`, one to five digits, and what follows them
MaxDigits == 5
HexDigitSample == {"0", "f"}
DigitRuns == UNION {[1..n -> HexDigitSample] : n \in 1..MaxDigits}
HexFollowers == {<<>>, <<"\n">>, <<" ">>, <<",">>}
HexTexts == {<<"$">> \o d \o f : d \in DigitRuns, f \in HexFollowers}

InitHex == InitCalls(HexTexts, {"address_u8", "address_u16"})
SpecHex == InitHex /\ [][NextCalls]_vars

\* texts in which an opening parenthesis has no closing one
ParenPrefixes == {<<>>, <<"a", " ", "+", " ">>, <<"1", " ", "*", " ">>, <<"(", "a", ")", " ", "|", " ">>, <<"#">>}
ParenInners == {<<>>, <<" ">>, <<"a">>, <<"$", "4", "4">>, <<"a", " ", "+", " ", "b">>, <<"a", " ", "+">>, <<"A", ",", "X">>, <<"(", "a", ")">>, <<"(", "a">>, <<"$", "4", "4", ",", "X">>}
ParenFollowers == {<<>>, <<"\n">>}
ParenTexts == {p \o <<"(">> \o i \o f : p \in ParenPrefixes, i \in ParenInners, f \in ParenFollowers}

InitParens == InitCalls(ParenTexts, {"Scanner_expression", "Scanner_operand"})
SpecParens == InitParens /\ [][NextCalls]_vars

\* every parser of the Scanner, on texts that end inside a construct
AllParsers ==
    AttemptedParsers \cup
    {"Scanner_number", "parse_scoped_reference", "high_precedence_operator",
     "low_precedence_operator", "Scanner_expression", "Scanner_term", "Scanner_factor",
     "address_u16", "address_u8", "literal_u8", "Scanner_mnemonic", "Scanner_operand",
     "directive_args_word", "directive_args_byte", "directive_args_include",
     "directive_args_org"}
EndingTexts ==
    {<<"a", ":", ":">>, <<"a", ":", ":", "b">>, <<"J", "o", "y", "p", "a", "d", ":", ":", "D", "o", "w", "n">>, <<"a", ":">>, <<"#", "$", "4">>, <<"#", "$">>, <<"#">>, <<"$">>, <<"%">>, <<"%", "2">>,
     <<"9", "9", "9", "9", "9">>, <<"<">>, <<"a", " ", "<">>, <<"1", " ", ">">>, <<"a", " ", ">", ">">>, <<"a", " ", "+">>, <<"(">>, <<"(", "A">>, <<"(", "A", ",">>, <<"(", "A", ")", ",">>,
     <<".", "i", "n", "c", "l", "u", "d", "e", " ", "\"", "a">>, <<".", "i", "n", "c", "l", "u", "d", "e">>, <<".", "s", "e", "g", "m", "e", "n", "t", " ", "\"">>, <<".", "s", "e", "g", "m", "e", "n", "t", " ", "\"", "A">>, <<".", "s", "c", "o", "p", "e">>, <<".", "b", "y", "t", "e", " ", "1", ",">>,
     <<"A", " ", "=">>, <<"@", "B">>, <<"L", "D", "A", " ", "(">>, <<"L", "D", "A", " ", "#">>, <<"l", "d", "a", " ", "$", "4", "4", ",">>, <<"$", "4", "4", " ", ",">>, <<"$", "4", "4", "0", "0", ",", " ">>}
FullLines == {<<"A", ":", " ", "L", "D", "A", " ", "(", "$", "4", "4", ")", ",", "Y", " ", ";", " ", "c">> \o <<"\n">>, <<".", "w", "o", "r", "d", " ", "$", "2", "0", "0", "0", ",", " ", "A", "+", "1">> \o <<"\n", "\n">> \o <<"T", "A", "X">>,
              <<"A", " ", "=", " ", "%", "1", "0", "1">> \o <<"\n">>, <<"@", "B", ":", " ", "S", "T", "A", " ", "J", "o", "y", "p", "a", "d", ":", ":", "D", "o", "w", "n", ",", "x">>}
AnyTexts == EndingTexts \cup FullLines

InitAnyCalls == InitCalls(AnyTexts, AllParsers)
SpecAnyCalls == InitAnyCalls /\ [][NextCalls]_vars

\* ============================================================ properties
has_instruction(line) ==
    is_some(line.main_component) /\ unwrap(line.main_component).kind = "Instruction"
has_directive(line) ==
    is_some(line.main_component) /\ unwrap(line.main_component).kind = "Directive"
instruction_of(line) == unwrap(line.main_component).instruction
directive_of(line) == unwrap(line.main_component).directive

has_address_mode(line) ==
    /\ has_instruction(line)
    /\ is_some(instruction_of(line).operand)
    /\ unwrap(instruction_of(line).operand).kind = "AddressMode"
address_mode_of(line) == unwrap(instruction_of(line).operand).address_mode

\* the line the first loop is about to visit
Pass1Visiting == pc = "pass1" /\ fault = NoFault /\ idx < Len(lines)
Pass1Finishing == pc = "pass1" /\ pc' = "pass2"
\* the third loop has visited lines[idx]
Pass3Visited == pc \in {"pass3", "done"} /\ idx >= 1

RECURSIVE SizeSum(_, _)
SizeSum(ls, n) == IF n = 0 THEN 0 ELSE SizeSum(ls, n - 1) + main_component_size(ls[n])

\* C1: pass 1 stores each label with the value the offset counter has when the
\* label's line is visited, which is the sum of the sizes of the main components
\* of the earlier lines (the own line not counted), and is_local exactly for
\* local (@) labels.
C1_LabelStoredAtVisitOffset ==
    [][Pass1Visiting =>
        LET line == lines[idx + 1] IN
        /\ offset_tracker = SizeSum(lines, idx)
        /\ is_some(line.label) =>
            /\ unwrap(line.label).ident \in DOMAIN label_map'
            /\ label_map'[unwrap(line.label).ident] =
                 LabelMetaData(SizeSum(lines, idx), unwrap(line.label).kind = "LocalLabel")]_vars

\* `A:` then `JMP A` then `@B: TAX`: A at offset 0, the local label B at offset 3
C1_Witness ==
    /\ pc = "pass2" /\ idx = 0
    /\ Len(lines) = 3
    /\ lines[1] = CodeLine(Some(Label("A")), None)
    /\ lines[3] = CodeLine(Some(LocalLabel("B")), Instr("TAX", None))
    /\ DOMAIN label_map = {"A", "B"}
    /\ label_map["A"] = LabelMetaData(0, FALSE)
    /\ label_map["B"] = LabelMetaData(3, TRUE)

ZeroPageOrAbsoluteIdents == {"ZeroPageOrAbsoluteIdent", "ZeroPageOrAbsoluteXIdent",
                             "ZeroPageOrAbsoluteYIdent"}
AbsoluteClass(variant) ==
    CASE variant = "ZeroPageOrAbsoluteIdent" -> "Absolute"
      [] variant = "ZeroPageOrAbsoluteXIdent" -> "AbsoluteX"
      [] variant = "ZeroPageOrAbsoluteYIdent" -> "AbsoluteY"
ZeroPageClass(variant) ==
    CASE variant = "ZeroPageOrAbsoluteIdent" -> "ZeroPage"
      [] variant = "ZeroPageOrAbsoluteXIdent" -> "ZeroPageX"
      [] variant = "ZeroPageOrAbsoluteYIdent" -> "ZeroPageY"

\* the third loop has just classified a ZeroPageOrAbsolute{,X,Y}Ident operand
DeferredIdentVisited ==
    /\ Pass3Visited
    /\ has_address_mode(lines[idx])
    /\ address_mode_of(lines[idx]).variant \in ZeroPageOrAbsoluteIdents

\* C2: a ZeroPageOrAbsolute{,X,Y}Ident(name) operand is classified absolute-class
\* when name is a label; otherwise, when name is a constant, zero-page-class for a
\* value <= 0xFF and absolute-class for a value > 0xFF.
C2_DeferredIdentClassification ==
    DeferredIdentVisited =>
        LET am == address_mode_of(lines[idx]) IN
        IF am.ident \in DOMAIN label_map
        THEN fault = NoFault /\ gen_operand = AbsoluteClass(am.variant)
        ELSE am.ident \in DOMAIN constant_map =>
                /\ fault = NoFault
                /\ gen_operand = IF constant_map[am.ident] <= 255
                                 THEN ZeroPageClass(am.variant)
                                 ELSE AbsoluteClass(am.variant)

\* `A = $10` then `LDA A,X`: narrowed to ZeroPageX
C2_Witness ==
    /\ DeferredIdentVisited
    /\ address_mode_of(lines[idx]).variant = "ZeroPageOrAbsoluteXIdent"
    /\ address_mode_of(lines[idx]).ident \notin DOMAIN label_map
    /\ address_mode_of(lines[idx]).ident \in DOMAIN constant_map
    /\ constant_map[address_mode_of(lines[idx]).ident] = 16
    /\ gen_operand = "ZeroPageX"

\* C3: a name defined both as a label and as a constant is classified
\* absolute-class, whatever the constant's value.
C3_LabelWinsOverConstant ==
    (/\ DeferredIdentVisited
     /\ address_mode_of(lines[idx]).ident \in DOMAIN label_map
     /\ address_mode_of(lines[idx]).ident \in DOMAIN constant_map)
    => (fault = NoFault /\ gen_operand \in {"Absolute", "AbsoluteX", "AbsoluteY"}
        /\ gen_operand = AbsoluteClass(address_mode_of(lines[idx]).variant))

\* label A and constant A = $10 both defined, `LDA A` classified Absolute
C3_Witness ==
    /\ DeferredIdentVisited
    /\ address_mode_of(lines[idx]).ident \in DOMAIN label_map
    /\ address_mode_of(lines[idx]).ident \in DOMAIN constant_map
    /\ constant_map[address_mode_of(lines[idx]).ident] <= 255
    /\ gen_operand = "Absolute"

\* the third loop has just visited an operand naming an identifier defined nowhere
MissingSymbolVisited ==
    /\ Pass3Visited
    /\ has_address_mode(lines[idx])
    /\ address_mode_of(lines[idx]).variant \in IdentModes
    /\ address_mode_of(lines[idx]).ident \notin DOMAIN label_map
    /\ address_mode_of(lines[idx]).ident \notin DOMAIN constant_map

\* C4: an operand carrying an identifier that is in neither map resolves to the
\* error value LabelOrConstantNotFound: it is not classified and the program is
\* not aborted.
C4_MissingSymbolIsErrorValue ==
    MissingSymbolVisited =>
        /\ to_generic(address_mode_of(lines[idx]), label_map, constant_map)
              = Err("LabelOrConstantNotFound")
        /\ gen_operand = ""
        /\ fault = NoFault

is_deferred(line) ==
    has_address_mode(line) /\ address_mode_of(line).variant \in IdentModes \cup ScopedRefModes

\* every identifier an operand names is a label or a constant; a scoped reference
\* cannot be defined by any line
AllSymbolsDefined ==
    \A k \in 1..Len(lines) :
        has_address_mode(lines[k]) =>
            /\ address_mode_of(lines[k]).variant \notin ScopedRefModes
            /\ address_mode_of(lines[k]).variant \in IdentModes =>
                 address_mode_of(lines[k]).ident \in DOMAIN label_map \cup DOMAIN constant_map

\* C5: after pass 2 over a line sequence whose symbols are all defined, no
\* operand is an ...Ident or ...ScopedRef address-mode variant.
C5_NoDeferredOperandAfterPass2 ==
    (pc \in {"pass3", "done"} /\ AllSymbolsDefined) =>
        \A k \in 1..Len(lines) : ~is_deferred(lines[k])

\* bytes of one resolved line: opcode-table length of (mnemonic, generic mode),
\* count of BYTE arguments, twice the count of WORD arguments
resolved_generic(line) ==
    generic_operand(instruction_of(line), label_map, constant_map, overflow_checks)
encodable(line) ==
    has_instruction(line) =>
        /\ resolved_generic(line).ok
        /\ <<instruction_of(line).mnemonic, resolved_generic(line).val>> \in DOMAIN OPCODES_TO_BYTES
directive_bytes(directive) ==
    IF directive.name = "BYTE" THEN Len(directive.args)
    ELSE IF directive.name = "WORD" THEN 2 * Len(directive.args)
    ELSE 0
resolved_bytes(line) ==
    IF has_instruction(line)
    THEN OPCODES_TO_BYTES[<<instruction_of(line).mnemonic, resolved_generic(line).val>>].len
    ELSE IF has_directive(line) THEN directive_bytes(directive_of(line))
    ELSE 0

RECURSIVE TotalBytes(_, _)
TotalBytes(ls, n) == IF n = 0 THEN 0 ELSE TotalBytes(ls, n - 1) + resolved_bytes(ls[n])

\* C6: the offset counter at the end of pass 1 equals the number of bytes of
\* the resolved program (opcode-table lengths plus directive sizes).
C6_OffsetEqualsResolvedBytes ==
    (/\ pc = "done"
     /\ fault = NoFault
     /\ AllSymbolsDefined
     /\ \A k \in 1..Len(lines) : encodable(lines[k]))
    => offset_tracker = TotalBytes(lines, Len(lines))

\* the size the data model gives each operand shape
ShapeSize(operand) ==
    IF ~is_some(operand) THEN 1
    ELSE LET am == unwrap(operand).address_mode IN
         IF am.variant = "Accumulator" THEN 1
         ELSE IF am.variant \in EightBitModes
                    \cup {"ImmediateIdent", "ImmediateScopedRef",
                          "IndexedIndirectXIdent", "IndexedIndirectXScopedRef",
                          "IndirectIndexYIdent", "IndirectIndexYScopedRef"} THEN 2
         ELSE 3

\* C7: the size of an instruction is 1 without operand or with Accumulator, 2 for
\* the 8-bit modes and the deferred immediate and indirect forms, 3 for the 16-bit
\* modes and the deferred absolute forms.
C7_InstructionSizeByShape ==
    [][(/\ Pass1Visiting
        /\ has_instruction(lines[idx + 1])
        /\ (is_some(instruction_of(lines[idx + 1]).operand) => has_address_mode(lines[idx + 1]))
        /\ fault' = NoFault)
       => offset_tracker' = offset_tracker + ShapeSize(instruction_of(lines[idx + 1]).operand)]_vars

\* C8: a directive adds to the offset counter the number of BYTE arguments,
\* twice the number of WORD arguments, and 0 for every other directive, for
\* argument lists of any length.
C8_DirectiveContribution ==
    [][(Pass1Visiting /\ has_directive(lines[idx + 1]) /\ fault' = NoFault)
       => offset_tracker' = (offset_tracker + directive_bytes(directive_of(lines[idx + 1]))) % U16Mod]_vars

label_lines(name) ==
    {k \in 1..Len(lines) : is_some(lines[k].label) /\ unwrap(lines[k].label).ident = name}

LabelsOrdered ==
    \A i, j \in 1..Len(lines) :
        (/\ i < j
         /\ is_some(lines[i].label) /\ is_some(lines[j].label)
         /\ label_lines(unwrap(lines[i].label).ident) = {i}
         /\ label_lines(unwrap(lines[j].label).ident) = {j})
        => label_map[unwrap(lines[i].label).ident].offset
              <= label_map[unwrap(lines[j].label).ident].offset

\* C9: the offset counter never decreases from one line to the next and, after
\* pass 1, the offset of a label defined earlier is <= the offset of a label
\* defined later, also when the accumulated size exceeds 0xFFFF.
C9_OffsetsNonDecreasing ==
    [][/\ pc = "pass1" => offset_tracker' >= offset_tracker
       /\ Pass1Finishing => LabelsOrdered']_vars

constant_lines(name) ==
    {k \in 1..Len(lines) : is_some(lines[k].constant) /\ unwrap(lines[k].constant)[1] = name}
last_of(s) == CHOOSE k \in s : \A j \in s : j <= k
ConstantNames == {"A", "B"}

LastWins ==
    \A name \in ConstantNames :
        IF constant_lines(name) = {} THEN name \notin DOMAIN constant_map
        ELSE /\ name \in DOMAIN constant_map
             /\ constant_map[name] = unwrap(lines[last_of(constant_lines(name))].constant)[2]

\* C10: after pass 1 the constant map holds, for each name, the value of the
\* last line defining it; a redefinition is not an error; a constant line changes
\* neither the label map nor the offset counter.
C10_ConstantLastWins ==
    [][/\ (Pass1Visiting /\ is_some(lines[idx + 1].constant)) =>
            /\ fault' = NoFault
            /\ label_map' = label_map
            /\ offset_tracker' = offset_tracker
       /\ Pass1Finishing => LastWins']_vars

\* `A = $10` redefined by `A = $2002`: the map holds $2002 after pass 1
C10_Witness ==
    /\ pc = "pass2" /\ idx = 0
    /\ \E i, j \in constant_lines("A") :
          /\ i < j
          /\ unwrap(lines[i].constant)[2] # unwrap(lines[j].constant)[2]
          /\ j = last_of(constant_lines("A"))
          /\ constant_map["A"] = unwrap(lines[j].constant)[2]

\* ---------------------------------------------------------------- pass 2
has_expression_operand(line) ==
    /\ has_instruction(line)
    /\ is_some(instruction_of(line).operand)
    /\ unwrap(instruction_of(line).operand).kind = "Expression"
expression_of(line) == unwrap(instruction_of(line).operand).expr

\* the second loop visits lines[idx + 1] and returns from resolve_expressions
Pass2Step == pc = "pass2" /\ fault = NoFault /\ idx < Len(lines) /\ fault' = NoFault

byte_arg_too_large(line) ==
    /\ has_directive(line)
    /\ directive_of(line).name = "BYTE"
    /\ \E k \in 1..Len(directive_of(line).args) :
          LET arg == directive_of(line).args[k] IN
          /\ arg.kind = "Expression"
          /\ evaluate_expression(arg.expr, constant_map, overflow_checks).ok
          /\ evaluate_expression(arg.expr, constant_map, overflow_checks).value > 255

\* C12: a BYTE argument expression evaluating above 0xFF is rejected with
\* ValueTooLarge, and this first fatal error terminates assembly: no step of
\* any loop (no resolution, no opcode lookup) follows the rejection.
C12_ValueTooLargeTerminates ==
    [][/\ (pc = "pass2" /\ byte_arg_too_large(lines[idx + 1])) => result' = "ValueTooLarge"
       /\ result # "ValueTooLarge"]_vars

\* ------------------------------------------------- expression evaluation
\* (a * b) mod 2^16 in two halves of b
ModMul(a, b) == (a * (b % 256) + ((a * (b \div 256)) % 256) * 256) % 65536

\* one operator applied mathematically, the result reduced modulo 2^16
modular_op(op, a, b) ==
    CASE op = "Add" -> (a + b) % 65536
      [] op = "Subtract" -> (a - b + 65536) % 65536
      [] op = "Multiply" -> ModMul(a, b)
      [] op = "Divide" -> IF b = 0 THEN 0 ELSE a \div b
      [] op = "And" -> BitAnd(a, b, 16)
      [] op = "Or" -> BitOr(a, b, 16)
      [] op = "ShiftLeft" -> IF b >= 16 THEN 0 ELSE (a * Pow2(b)) % 65536
      [] op = "ShiftRight" -> IF b >= 16 THEN 0 ELSE a \div Pow2(b)

RECURSIVE modular_value(_, _)
modular_value(node, cmap) ==
    CASE node.node = "BinOp" ->
            modular_op(node.op, modular_value(node.left, cmap), modular_value(node.right, cmap))
      [] node.node = "Number" -> node.n
      [] node.node = "Identifier" -> cmap[node.ident]
      [] node.node = "Parenthesized" -> modular_value(node.inner, cmap)
      [] node.node = "ScopedReference" -> 0

RECURSIVE identifiers_defined(_, _)
identifiers_defined(node, cmap) ==
    CASE node.node = "BinOp" ->
            identifiers_defined(node.left, cmap) /\ identifiers_defined(node.right, cmap)
      [] node.node = "Identifier" -> node.ident \in DOMAIN cmap
      [] node.node = "Parenthesized" -> identifiers_defined(node.inner, cmap)
      [] OTHER -> TRUE

RECURSIVE divides_by_zero(_, _)
divides_by_zero(node, cmap) ==
    CASE node.node = "BinOp" ->
            \/ divides_by_zero(node.left, cmap)
            \/ divides_by_zero(node.right, cmap)
            \/ node.op = "Divide" /\ modular_value(node.right, cmap) = 0
      [] node.node = "Parenthesized" -> divides_by_zero(node.inner, cmap)
      [] OTHER -> FALSE

\* the second loop is about to evaluate the expression of a one-argument WORD line
WordExpressionVisiting ==
    /\ pc = "pass2" /\ fault = NoFault /\ idx < Len(lines)
    /\ has_directive(lines[idx + 1])
    /\ directive_of(lines[idx + 1]).name = "WORD"
    /\ directive_of(lines[idx + 1]).args[1].kind = "Expression"
    /\ identifiers_defined(directive_of(lines[idx + 1]).args[1].expr, constant_map)
visited_expression == directive_of(lines[idx + 1]).args[1].expr

\* C13: evaluation of an expression tree without division by zero is modulo
\* 2^16: the value is the one obtained by applying every operator
\* mathematically and reducing modulo 65536, sums and products above 0xFFFF,
\* subtractions below 0 and shift amounts of 16 or more included.
C13_EvaluationModulo65536 ==
    [][(WordExpressionVisiting /\ ~divides_by_zero(visited_expression, constant_map)) =>
          /\ fault' = NoFault
          /\ directive_of(lines'[idx + 1]).args[1]
                = ArgValue(modular_value(visited_expression, constant_map))]_vars

\* C14: an expression in which a divisor evaluates to zero does not stop the
\* assembler: evaluation returns (a value or an error value).
C14_DivisionByZeroDoesNotCrash ==
    [][(WordExpressionVisiting /\ divides_by_zero(visited_expression, constant_map)) =>
          fault' = NoFault]_vars

\* the second loop is about to resolve an instruction whose operand expression
\* names an identifier that is not a constant
MissingConstantVisiting ==
    /\ pc = "pass2" /\ fault = NoFault /\ idx < Len(lines)
    /\ has_expression_operand(lines[idx + 1])
    /\ ~identifiers_defined(expression_of(lines[idx + 1]), constant_map)

\* C15: an identifier of an expression that is absent from the constant map (a
\* label name included) makes resolve_expressions report a lookup-miss error
\* value; the assembler is not aborted.
C15_LookupMissIsErrorValue ==
    [][MissingConstantVisiting => (fault' = NoFault /\ result' # "Ok")]_vars

\* ------------------------------------------------------ opcode lookup
BranchMnemonics == {"BCC", "BCS", "BEQ", "BMI", "BNE", "BPL", "BVC", "BVS"}
AccumulatorShifts == {"ASL", "LSR", "ROL", "ROR"}
YIndexedModes == {"ZeroPageY", "AbsoluteY", "ZeroPageOrAbsoluteYIdent"}
has_entry(mnemonic, mode) == <<mnemonic, mode>> \in DOMAIN OPCODES_TO_BYTES

\* instructions of a well-formed input: a branch to a defined label or local
\* label, an accumulator shift without operand, a `,Y` operand (number or
\* defined constant) on a mnemonic with a Y-indexed form, and a numeric operand
\* in a mode the mnemonic has
well_formed(line) ==
    LET m == instruction_of(line).mnemonic
        operand == unwrap(instruction_of(line).operand)
        am == operand.address_mode
    IN  /\ has_instruction(line)
        /\ IF ~is_some(instruction_of(line).operand)
           THEN has_entry(m, "Implied") \/ m \in AccumulatorShifts
           ELSE CASE operand.kind = "LocalLabel" ->
                       m \in BranchMnemonics /\ operand.ident \in DOMAIN label_map
                  [] operand.kind = "AddressMode" ->
                       CASE am.variant = "ZeroPageOrAbsoluteIdent" ->
                              m \in BranchMnemonics /\ am.ident \in DOMAIN label_map
                         [] am.variant = "ZeroPageOrAbsoluteYIdent" ->
                              /\ has_entry(m, "ZeroPageY") \/ has_entry(m, "AbsoluteY")
                              /\ am.ident \in DOMAIN label_map \cup DOMAIN constant_map
                         [] am.variant \in {"ZeroPageY", "AbsoluteY"} ->
                              has_entry(m, "ZeroPageY") \/ has_entry(m, "AbsoluteY")
                         [] am.variant \in ValueModes \ {"ZeroPageY", "AbsoluteY"} ->
                              has_entry(m, am.variant)
                         [] OTHER -> FALSE
                  [] OTHER -> FALSE

\* C16: for every instruction of a well-formed input the pair (mnemonic,
\* generic mode) the third loop computes has an entry in OPCODES_TO_BYTES;
\* branches to a label or local label, operand-less accumulator shifts and
\* `,Y` operands are among them.
C16_OpcodeCoverage ==
    (Pass3Visited /\ fault = NoFault /\ well_formed(lines[idx])) => is_some(opcode)

\* the third loop has classified a `,Y` operand whose value fits a byte
SmallYOperandVisited ==
    /\ Pass3Visited
    /\ fault = NoFault
    /\ has_address_mode(lines[idx])
    /\ LET am == address_mode_of(lines[idx]) IN
       \/ am.variant = "ZeroPageY"
       \/ /\ am.variant = "ZeroPageOrAbsoluteYIdent"
          /\ am.ident \notin DOMAIN label_map
          /\ am.ident \in DOMAIN constant_map
          /\ constant_map[am.ident] <= 255

\* C17: ZeroPageY is the generic mode of a `,Y` operand with a value <= 0xFF
\* only for LDX and STX; for every other mnemonic the operand is promoted to
\* AbsoluteY before the opcode lookup; the opcode table has ZeroPageY entries for
\* LDX and STX only.
C17_ZeroPageYOnlyForLdxStx ==
    /\ SmallYOperandVisited =>
          gen_operand = IF instruction_of(lines[idx]).mnemonic \in {"LDX", "STX"}
                        THEN "ZeroPageY" ELSE "AbsoluteY"
    /\ \A key \in DOMAIN OPCODES_TO_BYTES : key[2] = "ZeroPageY" => key[1] \in {"LDX", "STX"}

\* opcode byte, then the operand: nothing for a 1-byte instruction, the low byte
\* for a 2-byte one, low byte then high byte for a 3-byte one
instruction_bytes(instruction) ==
    LET am == unwrap(instruction.operand).address_mode
        entry == OPCODES_TO_BYTES[<<instruction.mnemonic,
                                    IF is_some(instruction.operand) THEN am.variant
                                    ELSE "Implied">>]
    IN  CASE entry.len = 1 -> <<entry.opcode>>
          [] entry.len = 2 -> <<entry.opcode, am.value % 256>>
          [] entry.len = 3 -> <<entry.opcode, am.value % 256, am.value \div 256>>

\* a line without label whose instruction has no operand or a numeric one
numeric_instruction(line) ==
    /\ has_instruction(line)
    /\ is_some(instruction_of(line).operand) =>
          /\ has_address_mode(line)
          /\ address_mode_of(line).variant \in ValueModes
    /\ has_entry(instruction_of(line).mnemonic,
                 IF is_some(instruction_of(line).operand)
                 THEN address_mode_of(line).variant ELSE "Implied")

RECURSIVE program_bytes(_, _)
program_bytes(ls, n) ==
    IF n = 0 THEN <<>>
    ELSE program_bytes(ls, n - 1) \o instruction_bytes(instruction_of(ls[n]))

\* C18: the bytes process_lines returns are, for each instruction in source
\* order, the opcode byte followed by the operand bytes (little-endian for a
\* 3-byte instruction): `LDA #$44` gives A9 44, `STA $2000` gives 8D 00 20,
\* `LDA ($44),Y` gives B1 44, `TAX` gives AA.
C18_ReturnedBytes ==
    (pc = "done" /\ \A k \in 1..Len(lines) : numeric_instruction(lines[k])) =>
        returned = Some(program_bytes(lines, Len(lines)))


\* ---------------------------------------------------- C19, C20: scanner
\* the end of a source line and what may follow it
line_ends == {t \o s : t \in Tails \ {<<>>}, s \in SecondLines} \cup {<<>>}

\* texts whose first line is a BYTE, WORD or ADDR directive without argument
NoArgInputs ==
    {h \o d \o w \o e : h \in Heads, d \in DirectiveTexts, w \in {<<>>, <<" ">>}, e \in line_ends}

AtNoArgDirective == pc = "parse" /\ cursor = 0 /\ input \in NoArgInputs

\* C19: a BYTE, WORD or ADDR directive with no argument makes line() fail with
\* DirectiveWithNoArg, which parse_file receives; the line is never pushed as a
\* line without main component.
C19_NoArgDirectiveRejected ==
    [][AtNoArgDirective => (parse_error' = "DirectiveWithNoArg" /\ line_list' = line_list)]_vars

\* directive names with list arguments, and argument lists ending in a comma
\* with the arguments in front of that comma
ListDirectiveTexts == {<<<<".", "b", "y", "t", "e">>, "BYTE">>, <<<<".", "B", "Y", "T", "E">>, "BYTE">>, <<<<".", "w", "o", "r", "d">>, "WORD">>}
TrailingCommaLists ==
    {<<<<" ", "1", ",">>, <<ArgValue(1)>>>>, <<<<" ", "1", ",", " ", "2", ",">>, <<ArgValue(1), ArgValue(2)>>>>}

TrailingCommaInputs ==
    {h \o d[1] \o a[1] \o e :
        h \in Heads, d \in ListDirectiveTexts, a \in TrailingCommaLists, e \in line_ends}

\* the directive a text of TrailingCommaInputs is read as, if the comma ends its list
expected_directive(inp) ==
    CHOOSE x \in {DirectiveList(d[2], a[2]) : d \in ListDirectiveTexts, a \in TrailingCommaLists} :
        \E h \in Heads, d \in ListDirectiveTexts, a \in TrailingCommaLists, e \in line_ends :
            /\ inp = h \o d[1] \o a[1] \o e
            /\ x = DirectiveList(d[2], a[2])

AtTrailingComma == pc = "parse" /\ cursor = 0 /\ input \in TrailingCommaInputs

\* C20: a BYTE or WORD argument list ending in a comma is accepted: the line
\* pushed carries the directive with exactly the arguments before the comma, so
\* `.byte 1, 2,` is BYTE([1, 2]) of size 2.
C20_TrailingCommaAccepted ==
    [][AtTrailingComma =>
        /\ parse_error' = ""
        /\ Len(line_list') = 1
        /\ line_list'[1].main_component = Some(MainDirective(expected_directive(input)))
        /\ Directive_size(unwrap(line_list'[1].main_component).directive)
              = Len(expected_directive(input).args)
                   * (IF expected_directive(input).name = "BYTE" THEN 1 ELSE 2)]_vars


\* ------------------------------------------------------------ C21: line ends
\* a step of the parse loop, and what it consumed
LineStep == pc = "parse"

newline_positions(inp, from, to) == {i \in (from + 1)..to : inp[i] = "\n"}

\* C21: line() accepts a line followed by one or more newlines, recording how
\* many, or by the end of the input with count 0; it returns ExpectedNewline
\* only where the character after label, main component and comment is
\* neither a newline nor the end of the input.
C21_LineEndsAtNewlineOrEof ==
    [][LineStep =>
        /\ parse_error' = "" =>
              LET line == line_list'[Len(line_list')]
              IN  /\ Len(line_list') = Len(line_list) + 1
                  /\ newline_positions(input, cursor, cursor') = (cursor' - line.newlines + 1)..cursor'
                  /\ line.newlines = 0 => is_done(input, cursor')
                  /\ ~peek_is(input, cursor', "\n")
        /\ parse_error' = "ExpectedNewline" =>
              /\ ~is_done(input, cursor')
              /\ ~peek_is(input, cursor', "\n")
              /\ newline_positions(input, cursor, cursor') = {}
              /\ line_list' = line_list
        /\ (parse_error' # "" /\ newline_positions(input, cursor, cursor') = {}
               /\ (is_done(input, cursor') \/ peek_is(input, cursor', "\n")))
              => parse_error' # "ExpectedNewline"]_vars

\* a line ended by two newlines followed by a line ended by the end of the input
C21_Witness ==
    /\ pc = "parsed"
    /\ Len(line_list) = 2
    /\ line_list[1].newlines = 2
    /\ line_list[2].newlines = 0
    /\ is_some(line_list[2].main_component)

\* a text refused because something other than a newline follows the line
C21_Refused == parse_error = "ExpectedNewline"


\* ------------------------------------------------------- C22: line counter
RECURSIVE newlines_sum(_, _)
newlines_sum(ls, n) == IF n = 0 THEN 0 ELSE newlines_sum(ls, n - 1) + ls[n].newlines

\* the 1-based number of the source line that holds position c
source_line_number(inp, c) == Cardinality(newline_positions(inp, 0, c)) + 1

\* C22: after successful line() calls, scanner.lines is the number of newline
\* characters consumed so far, which is the sum of the newlines fields of the
\* lines returned; when line() returns an error, lines + 1 is the 1-based
\* number of the source line on which the failing line starts.
C22_LineCounterExact ==
    [][LineStep =>
        /\ parse_error' = "" =>
              /\ scanner_lines' = Cardinality(newline_positions(input, 0, cursor'))
              /\ scanner_lines' = newlines_sum(line_list', Len(line_list'))
        /\ parse_error' # "" => scanner_lines' + 1 = source_line_number(input, cursor)]_vars

\* an error on the third source line, after a line that consumed two newlines
C22_Witness ==
    /\ parse_error # ""
    /\ scanner_lines = 2
    /\ Len(line_list) = 1
    /\ line_list[1].newlines = 2


\* -------------------------------------------------- C23: expression trees
\* the tree the grammar gives a case: the tighter operator first, equal levels
\* from the left, a parenthesized pair as a Parenthesized node
tree_of(e) ==
    CASE e.grouping = "left" -> BinOp(e.o2, Parenthesized(BinOp(e.o1, e.x, e.y)), e.z)
      [] e.grouping = "right" -> BinOp(e.o1, e.x, Parenthesized(BinOp(e.o2, e.y, e.z)))
      [] e.grouping = "flat" ->
            IF e.o1 \in {o[2] : o \in LowOperators} /\ e.o2 \in {o[2] : o \in HighOperators}
            THEN BinOp(e.o1, e.x, BinOp(e.o2, e.y, e.z))
            ELSE BinOp(e.o2, BinOp(e.o1, e.x, e.y), e.z)

\* C23: expression() builds the tree by precedence: `* / << >>` bind tighter
\* than `+ - | &`, operators of one level associate to the left, a
\* parenthesized group stays a Parenthesized node, and whitespace around
\* operators and inside parentheses does not change the tree.
C23_PrecedenceAndAssociativity ==
    [][(pc = "scan" /\ cursor = 0 /\ called' = "Scanner_expression") =>
        /\ parse_error' = ""
        /\ cursor' = Len(input)
        /\ \A e \in ExpressionCases : e.text = input => parsed' = Some(tree_of(e))]_vars

\* `a - b - c` read as (a - b) - c
C23_Witness ==
    /\ called = "Scanner_expression"
    /\ input = <<"a", " ", "-", " ", "b", " ", "-", " ", "c">>
    /\ parsed = Some(BinOp("Subtract",
                           BinOp("Subtract", Identifier("a"), Identifier("b")),
                           Identifier("c")))

\* `a+b*c` read as a + (b * c)
C23_TighterFirst ==
    /\ called = "Scanner_expression"
    /\ input = <<"a", "+", "b", "*", "c">>
    /\ parsed = Some(BinOp("Add", Identifier("a"),
                           BinOp("Multiply", Identifier("b"), Identifier("c"))))


\* ----------------------------------------------- C24: address-mode dispatch
\* C24: address_modes returns the first variant that matches at the entry
\* position: `$hh`, `$hh,X`, `$hh,Y` are ZeroPage, ZeroPageX, ZeroPageY;
\* `$hhhh`, `$hhhh,X`, `$hhhh,Y` are Absolute, AbsoluteX, AbsoluteY; `#$hh` is
\* Immediate, `($hh,X)` IndexedIndirectX, `($hh),Y` IndirectIndexY; a name in
\* place of the number gives the deferred variant of the notation; four
\* digits are never refused because a zero-page variant saw too many digits.
C24_FirstMatchingVariant ==
    [][(pc = "scan" /\ cursor = 0 /\ called' = "address_modes") =>
        /\ parse_error' = ""
        /\ \A o \in OperandCases : o.text = input => parsed' = Some(TokenAddressMode(o.mode))]_vars

\* `$4400,X` read as AbsoluteX after the zero-page variants saw too many digits
C24_Witness ==
    /\ called = "address_modes"
    /\ input = <<"$", "4", "4", "0", "0", ",", "X">>
    /\ cursor = Len(input)
    /\ parsed = Some(TokenAddressMode(AddressModeValue("AbsoluteX", 17408)))


\* ------------------------------------------- C25: no match leaves the cursor
NonFatalErrors == {"TooManyDigits", "ExpectedValidMnemonic", "ValidArgNotFound"}

\* C25: when a parser run through attempt_parser ends in no match, by Ok(None)
\* or by a non-fatal error, the cursor is where it was on entry to the parser.
C25_NoMatchLeavesCursor ==
    [][(pc = "scan" /\ called' \in AttemptedParsers /\ parsed' = None
           /\ parse_error' \in NonFatalErrors \cup {""}) => cursor' = cursor]_vars


\* ------------------------------------------------ C26: one-digit addresses
OneDigitTexts == {<<"$">> \o d \o f : d \in [1..1 -> HexDigitSample], f \in HexFollowers}

\* C26: for address_u8 and address_u16, `$` with exactly one hex digit is a
\* no-match that leaves the cursor at the entry position, whether the end of
\* the input, a newline, whitespace or a comma follows; never a fatal error.
C26_OneDigitIsNoMatch ==
    [][(pc = "scan" /\ cursor = 0 /\ input \in OneDigitTexts
           /\ called' \in {"address_u8", "address_u16"}) =>
        /\ parsed' = None
        /\ parse_error' \in NonFatalErrors \cup {""}
        /\ cursor' = 0]_vars


\* ------------------------------------------- C27: unmatched parenthesis
\* C27: an opening parenthesis without its closing one is fatal: expression()
\* and operand() on such a text end with MissingClosingParenthesis or another
\* fatal error, never with a token and never with a no-match (an expression
\* text has no leading `#`).
C27_UnmatchedParenthesisIsFatal ==
    [][(/\ pc = "scan"
        /\ cursor = 0
        /\ \/ called' = "Scanner_operand"
           \/ called' = "Scanner_expression" /\ ~peek_is(input, 0, "#")) =>
        /\ parse_error' # ""
        /\ parse_error' \notin NonFatalErrors]_vars


\* ------------------------------------------------- C28: the parse loop ends
\* C28: each call of line() in the loop of parse_file returns an error, or
\* consumes at least one character, or leaves the scanner at the end of the
\* input, and never moves past it; every line pushed has consumed a character,
\* so the loop ends on every finite input and the lines are at most as many as
\* the characters read.
C28_ParseLoopProgress ==
    [][LineStep =>
        /\ parse_error' # "" \/ cursor' > cursor \/ is_done(input, cursor')
        /\ cursor' <= Len(input)
        /\ Len(line_list') <= cursor']_vars

\* a text of two lines read to its end
C28_Witness ==
    /\ pc = "parsed"
    /\ is_done(input, cursor)
    /\ Len(line_list) = 2
    /\ line_list[1].newlines = 1
    /\ is_some(line_list[1].main_component)


\* ------------------------------------------------ C29: cursor within input
\* C29: whatever parsers are called one after another on whatever text, the
\* cursor stays between 0 and the length of the input.
C29_CursorInBounds == cursor \in 0..Len(input)

\* a scoped reference read up to the last character of the input
C29_Witness ==
    /\ called = "parse_scoped_reference"
    /\ input = <<"J", "o", "y", "p", "a", "d", ":", ":", "D", "o", "w", "n">>
    /\ cursor = Len(input)
    /\ parsed = Some(ScopedReference(<<"Joypad", "Down">>))


\* ------------------------------------------------ failed resolution (C30)
\* the step of pass 2 that is about to return ValueTooLarge
ResolutionFails ==
    /\ pc = "pass2"
    /\ fault = NoFault
    /\ idx < Len(lines)
    /\ resolve_expressions(lines[idx + 1], constant_map, overflow_checks).result = "ValueTooLarge"

\* C30: resolve_expressions leaves the line unchanged when it fails: when it
\* returns ValueTooLarge for a BYTE directive every argument of the directive
\* is what it was before the call, and pass 2 never changes the constant map
\* or the label map.
C30_FailedResolutionLeavesLine ==
    [][/\ ResolutionFails => lines' = lines
       /\ pc = "pass2" => (constant_map' = constant_map /\ label_map' = label_map)]_vars

\* the part of C30 about the maps alone
C30_MapsUntouched ==
    [][pc = "pass2" => (constant_map' = constant_map /\ label_map' = label_map)]_vars

====
